---- MODULE Spec2Model ----
(***************************************************************************)
(* PrivacyLens: the video batch scheduler of FaceAnonymizationVideoApp,    *)
(* the VideoProcessingThread frame loop, the batching loop of              *)
(* DefaceIntegration.process_video, the box geometry and the mask methods  *)
(* of deface_pkg, the image batch thread and the frame extraction thread.  *)
(*                                                                         *)
(* Python indices are kept 0-based (current_batch_index, rows); the item   *)
(* at row i of the QListWidget is batch_list[i + 1].                       *)
(***************************************************************************)
EXTENDS Integers, Sequences, FiniteSets, TLC

\* ------------------------------------------------------------------------
\* Bounds of the model
\* ------------------------------------------------------------------------
NumPaths == 2
MaxQueue == 2
MaxFrames == 2
MaxThreads == 2

Paths == 1..NumPaths
ThreadIds == 1..MaxThreads

\* ------------------------------------------------------------------------
\* Small helpers
\* ------------------------------------------------------------------------
Max(a, b) == IF a >= b THEN a ELSE b
Min(a, b) == IF a <= b THEN a ELSE b
Abs(a) == IF a >= 0 THEN a ELSE -a
Range(s) == {s[i] : i \in 1..Len(s)}
\* list.pop(row) / QListWidget.takeItem(row): the sequence without 0-based row
RemoveAt(s, row) == [i \in 1..(Len(s) - 1) |-> IF i <= row THEN s[i] ELSE s[i + 1]]
\* QListWidget.insertItem(row, item): item becomes 0-based row `row`
InsertAt(s, row, e) ==
    [i \in 1..(Len(s) + 1) |-> IF i <= row THEN s[i] ELSE IF i = row + 1 THEN e ELSE s[i - 1]]

\* ------------------------------------------------------------------------
\* Messages carried by the processing_finished signal, as word sequences, so
\* that the scheduler's substring test is a computation on the text.
\* ------------------------------------------------------------------------
MsgCompleted == <<"video", "processing", "completed">>
MsgFailed == <<"processing", "failed">>
MsgSetupError == <<"error", "during", "video", "processing", "setup", "oserror">>
\* "completed" in message.lower()
ContainsCompleted(msg) == \E i \in 1..Len(msg) : msg[i] = "completed"

\* Item background colours set by the scheduler, read as the Job status
Pending == "none"
Running == "yellow"
Succeeded == "green"
Failed == "red"
Status(item) == item.bg

VARIABLES
    batch_list,           \* QListWidget rows: sequence of [path, bg]
    output_file,          \* TRUE once an output folder is chosen
    is_processing,        \* FaceAnonymizationVideoApp.is_processing
    current_batch_index,  \* 0-based index of the job being processed, -1 when reset
    processing_thread,    \* id of the latest VideoProcessingThread, 0 for None
    ui_disabled,          \* disable_ui_during_processing(True) is in force
    force_stop_enabled,   \* force_stop_btn.isEnabled()
    timers,               \* pending QTimer.singleShot(1000, process_next_batch_video)
    signals,              \* queued processing_finished emissions, oldest first
    threads,              \* VideoProcessingThread objects by id
    started,              \* history: job indices started in the current batch, in order
    stop_at,              \* history: index of the job running when stop was first requested, -1 if none
    results,              \* history: outcome of the run of each row in the current batch
    dup_rejected,         \* history: some add_to_batch call found its path already listed
    batch_report          \* the "Batch Processing Complete" message box, while it is open

appvars == <<batch_list, output_file, is_processing, current_batch_index, processing_thread,
             ui_disabled, force_stop_enabled, timers, signals, threads, started, stop_at, results,
             dup_rejected, batch_report>>

\* ------------------------------------------------------------------------
\* VideoProcessingThread
\* ------------------------------------------------------------------------
NoThread ==
    [pc |-> "none", job |-> -1, is_running |-> TRUE, pos |-> 0, written |-> <<>>,
     detected |-> 0, reader_open |-> FALSE, writer_open |-> FALSE,
     saw_stop |-> FALSE, cancelK |-> -1, outcome |-> "none",
     total_frames |-> 0, hundreds |-> 0, last100 |-> FALSE, failed_at |-> "none",
     progress |-> -1, progress_at |-> 0, masked |-> 0]

\* VideoProcessingThread.__init__ followed by QThread.start()
NewThread(job) == [NoThread EXCEPT !.pc = "start", !.job = job]

\* QThread.isRunning()
IsRunning(th) == th.pc \notin {"none", "done"}

Step(th, msgs) == [th |-> th, msgs |-> msgs]

\* an except clause that reports completion
thread_fail_reports_completed(th, where) ==
    Step([th EXCEPT !.pc = "done", !.outcome = "failed", !.failed_at = where,
                    !.total_frames = 0],
         <<MsgCompleted>>)

\* the inner except clause: log, emit "Processing failed"; nothing is closed there
\*   where: the step that raised ("open", "read", "detect", "mask", "write")
\* run() returns after it, and its local total_frames goes with it
thread_fail(th, where) ==
    Step([th EXCEPT !.pc = "done", !.outcome = "failed", !.failed_at = where,
                    !.total_frames = 0],
         <<MsgFailed>>)

\* progress_updated.emit(progress): the thread keeps count of the 100% events
\* and whether its latest progress event was one; progress is the latest
\* value emitted and progress_at the number of frames written by then
emit_progress(th, progress) ==
    [th EXCEPT !.hundreds = th.hundreds + (IF progress = 100 THEN 1 ELSE 0),
               !.last100 = (progress = 100),
               !.progress = progress,
               !.progress_at = Len(th.written)]

\* run() up to the start of the inner try: size check, makedirs, options,
\* detector, frame count from the container's metadata
\*   how = "ok" | "declined" (very large file, user answers No) | "error"
thread_setup(th, how, total_frames) ==
    CASE how = "ok" -> Step([th EXCEPT !.pc = "open", !.total_frames = total_frames], <<>>)
      [] how = "declined" -> Step([th EXCEPT !.pc = "done", !.outcome = "silent"], <<>>)
      [] OTHER -> Step([th EXCEPT !.pc = "done", !.outcome = "setup_error"], <<MsgSetupError>>)

\* imageio.get_reader / imageio.get_writer
\*   how = "ok" | "no_reader" | "no_writer"
thread_open(th, how) ==
    CASE how = "ok" -> Step([th EXCEPT !.pc = "read", !.reader_open = TRUE, !.writer_open = TRUE], <<>>)
      [] how = "no_reader" -> thread_fail(th, "open")
      [] OTHER -> thread_fail([th EXCEPT !.reader_open = TRUE], "open")

\* `for frame in reader`: the next frame, the end of the stream, or a read error
\*   how = "frame" | "eos" | "error"
thread_read(th, how) ==
    CASE how = "frame" -> Step([th EXCEPT !.pc = "check", !.pos = th.pos + 1], <<>>)
      [] how = "eos" -> Step([th EXCEPT !.pc = "close"], <<>>)
      [] OTHER -> thread_fail(th, "read")

\* the loop without its cancellation test
thread_check_ignores_flag(th) == Step([th EXCEPT !.pc = "process"], <<>>)

\* `if not self.is_running: break`
thread_check(th) ==
    IF ~th.is_running
    THEN Step([th EXCEPT !.pc = "close", !.saw_stop = TRUE], <<>>)
    ELSE Step([th EXCEPT !.pc = "process"], <<>>)

\* "Update progress bar roughly every second": frame_count frames are written
progress_update(th, frame_count) ==
    IF th.total_frames > 0
    THEN emit_progress(th, Min((frame_count * 100) \div th.total_frames, 99))
    ELSE th

\* a loop that writes the frame unmasked when the detector raises
thread_process_skips_detection(th, how, tick) ==
    IF how = "detector_error"
    THEN Step([th EXCEPT !.pc = "read", !.detected = th.detected + 1,
                         !.written = Append(th.written, th.pos), !.failed_at = "detect"], <<>>)
    ELSE Step([th EXCEPT !.pc = "read", !.detected = th.detected + 1,
                         !.written = Append(th.written, th.pos)], <<>>)

\* detection, masking and writer.append_data of the frame just read
\*   how = "ok" | "detector_error" | "mask_error" | "write_error"
\*   tick: more than a second has passed since the last progress update
\* detected and masked count the calls of the detector and the frames handed
\* to the masking code
thread_process(th, how, tick) ==
    CASE how = "ok" ->
            LET wrote == [th EXCEPT !.pc = "read", !.detected = th.detected + 1,
                                    !.masked = th.masked + 1,
                                    !.written = Append(th.written, th.pos)]
            IN Step(IF tick THEN progress_update(wrote, Len(wrote.written)) ELSE wrote, <<>>)
      [] how = "detector_error" -> thread_fail([th EXCEPT !.detected = th.detected + 1], "detect")
      [] how = "mask_error" ->
            thread_fail([th EXCEPT !.detected = th.detected + 1, !.masked = th.masked + 1],
                        "mask")
      [] OTHER ->
            thread_fail([th EXCEPT !.detected = th.detected + 1, !.masked = th.masked + 1],
                        "write")

\* after the loop: close reader and writer, report completion
thread_close(th) ==
    Step(emit_progress([th EXCEPT !.pc = "done", !.reader_open = FALSE,
                                  !.writer_open = FALSE, !.outcome = "completed",
                                  !.total_frames = 0], 100),
         <<MsgCompleted>>)

\* VideoProcessingThread.stop(); cancelK records the claim's case: the flag is
\* first set while the thread is between an append and the next flag check
thread_stop(th) ==
    [th EXCEPT !.is_running = FALSE,
               !.cancelK = IF th.is_running /\ th.pc \in {"start", "open", "read", "check"}
                           THEN Len(th.written) ELSE th.cancelK]

\* ------------------------------------------------------------------------
\* FaceAnonymizationVideoApp: handlers as functions of the application state
\* ------------------------------------------------------------------------
World ==
    [batch_list |-> batch_list, output_file |-> output_file, is_processing |-> is_processing,
     current_batch_index |-> current_batch_index, processing_thread |-> processing_thread,
     ui_disabled |-> ui_disabled, force_stop_enabled |-> force_stop_enabled,
     timers |-> timers, signals |-> signals, threads |-> threads,
     started |-> started, stop_at |-> stop_at, results |-> results,
     dup_rejected |-> dup_rejected, batch_report |-> batch_report]

Set(w) ==
    /\ batch_list' = w.batch_list
    /\ output_file' = w.output_file
    /\ is_processing' = w.is_processing
    /\ current_batch_index' = w.current_batch_index
    /\ processing_thread' = w.processing_thread
    /\ ui_disabled' = w.ui_disabled
    /\ force_stop_enabled' = w.force_stop_enabled
    /\ timers' = w.timers
    /\ signals' = w.signals
    /\ threads' = w.threads
    /\ started' = w.started
    /\ stop_at' = w.stop_at
    /\ results' = w.results
    /\ dup_rejected' = w.dup_rejected
    /\ batch_report' = w.batch_report

NoResults == [i \in 1..MaxQueue |-> [outcome |-> "none", saw_stop |-> FALSE]]

\* add_to_batch: the list after the call
add_to_batch_no_check(list, file_path) ==
    Append(list, [path |-> file_path, bg |-> Pending])

add_to_batch(list, file_path) ==
    IF \E i \in 1..Len(list) : list[i].path = file_path
    THEN list
    ELSE Append(list, [path |-> file_path, bg |-> Pending])

\* browse_multiple_files: add_to_batch for each selected file, in dialog order
RECURSIVE AddAll(_, _)
AddAll(list, files) ==
    IF files = <<>> THEN list
    ELSE AddAll(add_to_batch(list, Head(files)), Tail(files))

browse_multiple_files(w, files) ==
    [w EXCEPT !.batch_list = AddAll(w.batch_list, files),
              !.dup_rejected = w.dup_rejected
                               \/ Len(AddAll(w.batch_list, files)) < Len(w.batch_list) + Len(files)]

\* remove_selected_videos: takeItem(row(item)) for every selected item
RECURSIVE TakeItems(_, _)
TakeItems(list, rows) ==
    IF rows = {} THEN list
    ELSE LET r == CHOOSE x \in rows : \A y \in rows : y <= x
         IN TakeItems(RemoveAt(list, r), rows \ {r})

remove_selected_videos(w, rows) ==
    IF rows = {} THEN w ELSE [w EXCEPT !.batch_list = TakeItems(w.batch_list, rows)]

clear_batch(w) == IF Len(w.batch_list) > 0 THEN [w EXCEPT !.batch_list = <<>>] ELSE w

move_item_up(w, current_row) ==
    IF current_row > 0
    THEN [w EXCEPT !.batch_list =
            InsertAt(RemoveAt(w.batch_list, current_row), current_row - 1,
                     w.batch_list[current_row + 1])]
    ELSE w

\* with no current row (-1) takeItem returns None and nothing is inserted
move_item_down(w, current_row) ==
    IF current_row < Len(w.batch_list) - 1 /\ current_row >= 0
    THEN [w EXCEPT !.batch_list =
            InsertAt(RemoveAt(w.batch_list, current_row), current_row + 1,
                     w.batch_list[current_row + 1])]
    ELSE w

browse_output_folder(w) == [w EXCEPT !.output_file = TRUE]

\* no message box is open
NoReport == [shown |-> FALSE, processed_count |-> 0, total_count |-> 0, remaining |-> 0]

\* "Display results": the numbers batch_processing_complete computes when
\* current_batch_index > 0; status_msg carries processed_count and total_count
display_results(w) ==
    IF w.current_batch_index > 0
    THEN [shown |-> TRUE,
          processed_count |-> w.current_batch_index,
          total_count |-> Len(w.batch_list),
          remaining |-> Len(w.batch_list) - w.current_batch_index]
    ELSE w.batch_report

batch_processing_complete(w) ==
    [w EXCEPT !.is_processing = FALSE, !.force_stop_enabled = FALSE,
              !.ui_disabled = FALSE, !.current_batch_index = -1,
              !.batch_report = display_results(w)]

FreeThreads(w) == {t \in ThreadIds : w.threads[t].pc = "none"}

process_next_batch_video(w) ==
    IF ~w.is_processing \/ w.current_batch_index >= Len(w.batch_list)
    THEN batch_processing_complete(w)
    ELSE LET i == w.current_batch_index
             t == CHOOSE x \in FreeThreads(w) : \A y \in FreeThreads(w) : x <= y
         IN [w EXCEPT !.batch_list[i + 1].bg = Running,
                      !.threads[t] = NewThread(i),
                      !.processing_thread = t,
                      !.force_stop_enabled = TRUE,
                      !.started = Append(w.started, i)]

\* the slot of a thread whose signal was delivered is free for a later thread
Delivered(w, from) == [w EXCEPT !.threads[from] = NoThread]

\* a scheduler that gives up the batch when a run reports a failure
batch_video_finished_abort_on_failure(w, message) ==
    LET i == w.current_batch_index
        marked == IF 0 <= i /\ i < Len(w.batch_list)
                  THEN [w EXCEPT !.batch_list[i + 1].bg =
                            IF ContainsCompleted(message) THEN Succeeded ELSE Failed]
                  ELSE w
        moved == [marked EXCEPT !.current_batch_index = i + 1]
    IN IF moved.is_processing /\ moved.current_batch_index < Len(moved.batch_list)
          /\ ContainsCompleted(message)
       THEN [moved EXCEPT !.timers = moved.timers + 1]
       ELSE batch_processing_complete(moved)

\* a scheduler that runs a failed job again instead of moving on
batch_video_finished_retries_failed(w, message) ==
    LET i == w.current_batch_index
        marked == IF 0 <= i /\ i < Len(w.batch_list)
                  THEN [w EXCEPT !.batch_list[i + 1].bg =
                            IF ContainsCompleted(message) THEN Succeeded ELSE Failed]
                  ELSE w
        moved == [marked EXCEPT !.current_batch_index =
                                   IF ContainsCompleted(message) THEN i + 1 ELSE i]
    IN IF moved.is_processing /\ moved.current_batch_index < Len(moved.batch_list)
       THEN [moved EXCEPT !.timers = moved.timers + 1]
       ELSE batch_processing_complete(moved)

batch_video_finished(w, message) ==
    LET i == w.current_batch_index
        marked == IF 0 <= i /\ i < Len(w.batch_list)
                  THEN [w EXCEPT !.batch_list[i + 1].bg =
                            IF ContainsCompleted(message) THEN Succeeded ELSE Failed]
                  ELSE w
        moved == [marked EXCEPT !.current_batch_index = i + 1]
    IN IF moved.is_processing /\ moved.current_batch_index < Len(moved.batch_list)
       THEN [moved EXCEPT !.timers = moved.timers + 1]
       ELSE batch_processing_complete(moved)

\* stop the latest thread if it is running (both definitions begin with this)
StopThread(w) ==
    LET t == w.processing_thread
    IN IF t # 0 /\ IsRunning(w.threads[t])
       THEN [w EXCEPT !.threads[t] = thread_stop(w.threads[t]),
                      !.stop_at = IF w.stop_at = -1 THEN w.threads[t].job ELSE w.stop_at]
       ELSE w

\* the first definition of stop_processing in the class body, shadowed by the second
stop_processing_first_definition(w) ==
    LET s == StopThread(w)
    IN IF s.current_batch_index >= 0 THEN batch_processing_complete(s) ELSE s

\* the second definition of stop_processing: the one bound to the class
stop_processing(w) == StopThread(w)

start_batch_processing(w) ==
    IF w.is_processing THEN stop_processing(w)
    ELSE IF Len(w.batch_list) = 0 THEN w
    ELSE IF ~w.output_file THEN w
    ELSE process_next_batch_video(
            [w EXCEPT !.current_batch_index = 0, !.is_processing = TRUE, !.ui_disabled = TRUE,
                      !.started = <<>>, !.stop_at = -1, !.results = NoResults])

\* ------------------------------------------------------------------------
\* Actions of the application
\* ------------------------------------------------------------------------
MaxPick == 2
FileSelections == UNION {[1..n -> Paths] : n \in 1..MaxPick}

InitApp ==
    /\ batch_list = <<>>
    /\ output_file = FALSE
    /\ is_processing = FALSE
    /\ current_batch_index = -1
    /\ processing_thread = 0
    /\ ui_disabled = FALSE
    /\ force_stop_enabled = FALSE
    /\ timers = 0
    /\ signals = <<>>
    /\ threads = [t \in ThreadIds |-> NoThread]
    /\ started = <<>>
    /\ stop_at = -1
    /\ results = NoResults
    /\ dup_rejected = FALSE
    /\ batch_report = NoReport

BrowseMultipleFiles ==
    /\ ~ui_disabled
    /\ ~batch_report.shown
    /\ \E files \in FileSelections :
          /\ Len(AddAll(batch_list, files)) <= MaxQueue
          /\ Set(browse_multiple_files(World, files))

RemoveSelectedVideos ==
    /\ ~ui_disabled
    /\ ~batch_report.shown
    /\ \E rows \in SUBSET (0..(Len(batch_list) - 1)) :
          /\ rows # {}
          /\ Set(remove_selected_videos(World, rows))

ClearBatch ==
    ~ui_disabled /\ ~batch_report.shown /\ Len(batch_list) > 0 /\ Set(clear_batch(World))

MoveItemUp ==
    /\ ~ui_disabled
    /\ ~batch_report.shown
    /\ \E row \in 0..(Len(batch_list) - 1) : Set(move_item_up(World, row))

MoveItemDown ==
    /\ ~ui_disabled
    /\ ~batch_report.shown
    /\ \E row \in -1..(Len(batch_list) - 1) : Set(move_item_down(World, row))

BrowseOutputFolder == ~ui_disabled /\ ~batch_report.shown /\ Set(browse_output_folder(World))

\* the batch button: starts a batch, or asks the running one to stop
StartBatchProcessing ==
    /\ ~batch_report.shown
    /\ is_processing \/ (Len(batch_list) > 0 /\ output_file /\ FreeThreads(World) # {})
    /\ Set(start_batch_processing(World))

\* the Force Stop button
ForceStop == force_stop_enabled /\ ~batch_report.shown /\ Set(stop_processing(World))

\* the user closes the modal message box; until then the window takes no input
CloseReport == batch_report.shown /\ Set([World EXCEPT !.batch_report = NoReport])

\* the one-second single-shot timer fires
TimerFires ==
    /\ timers > 0
    /\ FreeThreads(World) # {}
    /\ Set(process_next_batch_video([World EXCEPT !.timers = timers - 1]))

\* the GUI thread runs the slot connected to the oldest queued signal
DeliverFinished ==
    /\ signals # <<>>
    /\ LET m == Head(signals)
       IN Set(batch_video_finished(Delivered([World EXCEPT !.signals = Tail(signals)], m.from),
                                   m.text))

\* one step of a running thread; emitted signals are queued for the GUI thread
Advance(t, step) ==
    /\ threads' = [threads EXCEPT ![t] = step.th]
    /\ signals' = signals \o [k \in 1..Len(step.msgs) |-> [text |-> step.msgs[k], from |-> t]]
    /\ results' = IF step.th.pc = "done" /\ step.th.job >= 0
                  THEN [results EXCEPT ![step.th.job + 1] =
                            [outcome |-> step.th.outcome, saw_stop |-> step.th.saw_stop]]
                  ELSE results
    /\ UNCHANGED <<batch_list, output_file, is_processing, current_batch_index,
                   processing_thread, ui_disabled, force_stop_enabled, timers, started, stop_at,
                   dup_rejected, batch_report>>

\* the frame counts cv2.VideoCapture can report: 0 when unknown, or any
\* number, which need not be the number of frames the reader yields
TotalFrames == 0..MaxFrames

ThreadSetup(t) ==
    /\ threads[t].pc = "start"
    /\ \E how \in {"ok", "declined", "error"}, total_frames \in TotalFrames :
          /\ how # "ok" => total_frames = 0
          /\ Advance(t, thread_setup(threads[t], how, total_frames))

ThreadOpen(t) ==
    /\ threads[t].pc = "open"
    /\ \E how \in {"ok", "no_reader", "no_writer"} : Advance(t, thread_open(threads[t], how))

ThreadRead(t) ==
    /\ threads[t].pc = "read"
    /\ \E how \in {"frame", "eos", "error"} :
          /\ how = "frame" => threads[t].pos < MaxFrames
          /\ Advance(t, thread_read(threads[t], how))

ThreadCheck(t) ==
    /\ threads[t].pc = "check"
    /\ Advance(t, thread_check(threads[t]))

ThreadProcess(t) ==
    /\ threads[t].pc = "process"
    /\ \E how \in {"ok", "detector_error", "mask_error", "write_error"}, tick \in BOOLEAN :
          /\ how # "ok" => ~tick
          /\ Advance(t, thread_process(threads[t], how, tick))

ThreadClose(t) ==
    /\ threads[t].pc = "close"
    /\ Advance(t, thread_close(threads[t]))

NextApp ==
    \/ BrowseMultipleFiles
    \/ RemoveSelectedVideos
    \/ ClearBatch
    \/ MoveItemUp
    \/ MoveItemDown
    \/ BrowseOutputFolder
    \/ StartBatchProcessing
    \/ ForceStop
    \/ CloseReport
    \/ TimerFires
    \/ DeliverFinished
    \/ \E t \in ThreadIds : ThreadSetup(t)
    \/ \E t \in ThreadIds : ThreadOpen(t)
    \/ \E t \in ThreadIds : ThreadRead(t)
    \/ \E t \in ThreadIds : ThreadCheck(t)
    \/ \E t \in ThreadIds : ThreadProcess(t)
    \/ \E t \in ThreadIds : ThreadClose(t)

\* ------------------------------------------------------------------------
\* Box geometry: deface_pkg.utils.scale_bb, the clipping of
\* DefaceIntegration.anonymize_frame and the region of the video blur path.
\* mask_scale is a float; the model takes the values k / ScaleDen, for which
\* every product and sum in scale_bb is exact in binary floating point.
\* ------------------------------------------------------------------------
GeoDim == 2
GeoMargin == 2
MaxScale == 6
ScaleDen == 4

Coords == (-GeoMargin)..(GeoDim + GeoMargin)
Dims == 1..GeoDim
MaskScales == ScaleDen..MaxScale
Boxes == [x1 : Coords, y1 : Coords, x2 : Coords, y2 : Coords]
Box(a, b, c, d) == [x1 |-> a, y1 |-> b, x2 |-> c, y2 |-> d]

\* np.round of n / d: to the nearest integer, exact halves to the even neighbour
RoundHalfEven(n, d) ==
    LET q == n \div d
        r == n % d
    IN IF 2 * r < d THEN q
       ELSE IF 2 * r > d THEN q + 1
       ELSE IF q % 2 = 0 THEN q ELSE q + 1

\* int() of the float n / d: truncation toward zero
TruncDiv(n, d) == IF n >= 0 THEN n \div d ELSE -((-n) \div d)

\* scale_bb with the "- 1.0" forgotten
scale_bb_no_offset(x1, y1, x2, y2, ms) ==
    LET h == y2 - y1
        w == x2 - x1
    IN Box(RoundHalfEven(ScaleDen * x1 - w * ms, ScaleDen),
           RoundHalfEven(ScaleDen * y1 - h * ms, ScaleDen),
           RoundHalfEven(ScaleDen * x2 + w * ms, ScaleDen),
           RoundHalfEven(ScaleDen * y2 + h * ms, ScaleDen))

\* scale_bb(x1, y1, x2, y2, mask_scale) with mask_scale = ms / ScaleDen
scale_bb(x1, y1, x2, y2, ms) ==
    LET s == ms - ScaleDen
        h == y2 - y1
        w == x2 - x1
    IN Box(RoundHalfEven(ScaleDen * x1 - w * s, ScaleDen),
           RoundHalfEven(ScaleDen * y1 - h * s, ScaleDen),
           RoundHalfEven(ScaleDen * x2 + w * s, ScaleDen),
           RoundHalfEven(ScaleDen * y2 + h * s, ScaleDen))

\* the clipping without its lower clamp
clip_bb_no_lower_clamp(b, width, height) ==
    Box(b.x1, b.y1, Min(width - 1, b.x2), Min(height - 1, b.y2))

\* anonymize_frame: "Clip bb coordinates to valid frame region"
clip_bb(b, width, height) ==
    Box(Max(0, b.x1), Max(0, b.y1), Min(width - 1, b.x2), Min(height - 1, b.y2))

\* the blur path of VideoProcessingThread.run: centre +- int(size * mask_scale) // 2
video_blur_region(b, ms, width, height) ==
    LET w == b.x2 - b.x1
        h == b.y2 - b.y1
        center_x == (b.x1 + b.x2) \div 2
        center_y == (b.y1 + b.y2) \div 2
        new_width == TruncDiv(w * ms, ScaleDen)
        new_height == TruncDiv(h * ms, ScaleDen)
    IN Box(Max(0, center_x - new_width \div 2), Max(0, center_y - new_height \div 2),
           Min(width, center_x + new_width \div 2), Min(height, center_y + new_height \div 2))

VARIABLES
    geo     \* one call of the geometry: its inputs and what it computed

GeoIdle == [pc |-> "idle"]

\* one detection through scale_bb and the two clippings
geometry(b, ms, width, height) ==
    LET sc == scale_bb(b.x1, b.y1, b.x2, b.y2, ms)
    IN [pc |-> "done", box |-> b, ms |-> ms, width |-> width, height |-> height,
        scaled |-> sc,
        region |-> clip_bb(sc, width, height),
        vregion |-> video_blur_region(b, ms, width, height)]

GeoCall ==
    /\ geo.pc = "idle"
    /\ \E b \in Boxes, ms \in MaskScales, width \in Dims, height \in Dims :
          geo' = geometry(b, ms, width, height)

GeoReturn ==
    /\ geo.pc = "done"
    /\ geo' = GeoIdle

\* ------------------------------------------------------------------------
\* Mask application: deface_pkg.utils.draw_det as called by anonymize_frame.
\* A frame is width x height pixels <<x, y>>; draw_det is modelled by the set
\* of pixels whose value it can change (for some frame content) and by
\* whether it raises.
\* ------------------------------------------------------------------------
MaxMosaic == 2
MosaicSizes == 1..MaxMosaic

\* the indices selected by the Python slice a:b on an axis of length n
SliceStart(a, n) == IF a < 0 THEN Max(a + n, 0) ELSE Min(a, n)
SliceRange(a, b, n) == {i \in 0..(n - 1) : SliceStart(a, n) <= i /\ i < SliceStart(b, n)}

\* range(a, b, step)
PyRange(a, b, step) == {i \in a..(b - 1) : (i - a) % step = 0}

\* the pixels of the frame covered by cv2.rectangle(frame, p, q, color, -1):
\* the filled rectangle spanned by the two corners, both included
RectPixels(px, py, qx, qy, width, height) ==
    {<<x, y>> : x \in Max(0, Min(px, qx))..Min(width - 1, Max(px, qx)),
                y \in Max(0, Min(py, qy))..Min(height - 1, Max(py, qy))}

\* skimage.draw.ellipse(r0, c0, r_radius, c_radius) as <<c, r>> pairs
EllipseCoords(r0, c0, rr, cr) ==
    {<<c, r>> \in ((c0 - cr)..(c0 + cr)) \X ((r0 - rr)..(r0 + rr)) :
        /\ rr # 0 /\ cr # 0
        /\ (r - r0) * (r - r0) * cr * cr + (c - c0) * (c - c0) * rr * rr < rr * rr * cr * cr}

Drawn(painted, error) == [painted |-> painted, error |-> error]

\* cv2.rectangle one pixel too far to the right and to the bottom
draw_solid_one_too_far(width, height, x1, y1, x2, y2) ==
    Drawn(RectPixels(x1, y1, x2 + 1, y2 + 1, width, height), FALSE)

\* replacewith == 'solid'
draw_solid(width, height, x1, y1, x2, y2) ==
    Drawn(RectPixels(x1, y1, x2, y2, width, height), FALSE)

\* replacewith == 'blur'; cv_rejects_empty: cv2.blur raises on an empty source
draw_blur(width, height, x1, y1, x2, y2, ellipse, cv_rejects_empty) ==
    LET cols == SliceRange(x1, x2, width)
        rows == SliceRange(y1, y2, height)
        kx == Abs(x2 - x1) \div 2
        ky == Abs(y2 - y1) \div 2
        averaged == (kx > 1 /\ Cardinality(cols) > 1) \/ (ky > 1 /\ Cardinality(rows) > 1)
        roi == IF averaged THEN cols \X rows ELSE {}
        inside == {<<CHOOSE x \in cols : Cardinality({c \in cols : c < x}) = p[1],
                     CHOOSE y \in rows : Cardinality({r \in rows : r < y}) = p[2]>> :
                   p \in {q \in EllipseCoords((y2 - y1) \div 2, (x2 - x1) \div 2,
                                              (y2 - y1) \div 2, (x2 - x1) \div 2) :
                            /\ 0 <= q[1] /\ q[1] < Cardinality(cols)
                            /\ 0 <= q[2] /\ q[2] < Cardinality(rows)}}
    IN IF kx = 0 \/ ky = 0 THEN Drawn({}, TRUE)
       ELSE IF cols = {} \/ rows = {} THEN Drawn({}, cv_rejects_empty)
       ELSE IF ellipse THEN Drawn(roi \cap inside, FALSE)
       ELSE Drawn(roi, FALSE)

\* replacewith == 'img'; replaceimg is "none" (None), "rgb" or "rgba"
draw_img(width, height, x1, y1, x2, y2, replaceimg) ==
    LET cols == SliceRange(x1, x2, width)
        rows == SliceRange(y1, y2, height)
    IN IF replaceimg = "none" THEN Drawn({}, TRUE)
       ELSE IF x2 - x1 <= 0 \/ y2 - y1 <= 0 THEN Drawn({}, TRUE)
       ELSE IF Cardinality(cols) # x2 - x1 \/ Cardinality(rows) # y2 - y1 THEN Drawn({}, TRUE)
       ELSE Drawn(cols \X rows, FALSE)

\* replacewith == 'mosaic'
draw_mosaic(width, height, x1, y1, x2, y2, mosaicsize) ==
    LET cells == PyRange(x1, x2, mosaicsize) \X PyRange(y1, y2, mosaicsize)
        readable(c) == /\ -width <= c[1] /\ c[1] < width
                       /\ -height <= c[2] /\ c[2] < height
        cell(c) == RectPixels(c[1], c[2], Min(x2, c[1] + mosaicsize - 1),
                              Min(y2, c[2] + mosaicsize - 1), width, height) \ {c}
    IN IF \E c \in cells : ~readable(c) THEN Drawn({}, TRUE)
       ELSE Drawn(UNION {cell(c) : c \in cells}, FALSE)

\* draw_det whose 'none' branch fills the region
draw_det_none_fills(width, height, x1, y1, x2, y2, opt) ==
    IF opt.replacewith = "blur"
    THEN draw_blur(width, height, x1, y1, x2, y2, opt.ellipse, opt.cv_rejects_empty)
    ELSE IF opt.replacewith = "img"
    THEN draw_img(width, height, x1, y1, x2, y2, opt.replaceimg)
    ELSE IF opt.replacewith = "mosaic"
    THEN draw_mosaic(width, height, x1, y1, x2, y2, opt.mosaicsize)
    ELSE draw_solid(width, height, x1, y1, x2, y2)

\* draw_det with draw_scores = False; opt holds the keyword arguments
draw_det(width, height, x1, y1, x2, y2, opt) ==
    CASE opt.replacewith = "solid" -> draw_solid(width, height, x1, y1, x2, y2)
      [] opt.replacewith = "blur" ->
            draw_blur(width, height, x1, y1, x2, y2, opt.ellipse, opt.cv_rejects_empty)
      [] opt.replacewith = "img" -> draw_img(width, height, x1, y1, x2, y2, opt.replaceimg)
      [] opt.replacewith = "mosaic" -> draw_mosaic(width, height, x1, y1, x2, y2, opt.mosaicsize)
      [] OTHER -> Drawn({}, FALSE)

Opt(m, e, img, ms, strict) ==
    [replacewith |-> m, ellipse |-> e, replaceimg |-> img, mosaicsize |-> ms,
     cv_rejects_empty |-> strict]

\* the argument combinations that draw_det distinguishes
Options ==
    {Opt("solid", TRUE, "none", 1, TRUE), Opt("none", TRUE, "none", 1, TRUE)}
    \cup {Opt("blur", e, "none", 1, strict) : e \in BOOLEAN, strict \in BOOLEAN}
    \cup {Opt("img", TRUE, img, 1, TRUE) : img \in {"none", "rgb", "rgba"}}
    \cup {Opt("mosaic", TRUE, "none", ms, TRUE) : ms \in MosaicSizes}

VARIABLES
    mk      \* one call of anonymize_frame for one detection: region, options, effect

MaskIdle == [pc |-> "idle"]

\* anonymize_frame for a single detection: scale_bb, clip, draw_det
anonymize_frame(b, ms, width, height, opt) ==
    LET r == clip_bb(scale_bb(b.x1, b.y1, b.x2, b.y2, ms), width, height)
        d == draw_det(width, height, r.x1, r.y1, r.x2, r.y2, opt)
    IN [pc |-> "done", width |-> width, height |-> height, region |-> r, opt |-> opt,
        painted |-> d.painted, error |-> d.error]

MaskCall ==
    /\ mk.pc = "idle"
    /\ \E b \in Boxes, ms \in {ScaleDen, MaxScale}, width \in Dims, height \in Dims,
          opt \in Options :
          mk' = anonymize_frame(b, ms, width, height, opt)

MaskReturn ==
    /\ mk.pc = "done"
    /\ mk' = MaskIdle

\* ------------------------------------------------------------------------
\* The effect of one masking operation on the pixels of a frame.  A frame is
\* width x height pixels <<x, y>>, 0 <= x < width, 0 <= y < height.
\* ------------------------------------------------------------------------
MaxFxDim == 6
FxDims == 1..MaxFxDim
BlurIntensities == {3, 4}

VARIABLES
    fx      \* one masking operation: its arguments and its effect on the frame

FxIdle == [op |-> "idle"]

\* regions with positive extent whose upper corner is at most (xmax, ymax)
FxRegions(xmax, ymax) ==
    {r \in [x1 : 0..xmax, y1 : 0..ymax, x2 : 0..xmax, y2 : 0..ymax] :
        r.x1 < r.x2 /\ r.y1 < r.y2}

\* the pixels of the slice frame[y1:y2, x1:x2]
RegionPixels(r, width, height) ==
    SliceRange(r.x1, r.x2, width) \X SliceRange(r.y1, r.y2, height)

\* cv2.ellipse(mask, center, axes, 0, 0, 360, 255, -1): the filled ellipse,
\* as <<x, y>> pairs of the mask
CvEllipse(cx, cy, ax, ay, mask_width, mask_height) ==
    {q \in (0..(mask_width - 1)) \X (0..(mask_height - 1)) :
        /\ Abs(q[1] - cx) <= ax /\ Abs(q[2] - cy) <= ay
        /\ (q[1] - cx) * (q[1] - cx) * ay * ay + (q[2] - cy) * (q[2] - cy) * ax * ax
              <= ax * ax * ay * ay}

\* the blur branch of VideoProcessingThread.run with the ellipse mask ignored
video_blur_face_rectangle(width, height, r, ellipse, blur_intensity) ==
    Drawn(IF Cardinality(RegionPixels(r, width, height)) > 1
          THEN RegionPixels(r, width, height) ELSE {}, FALSE)

\* the blur branch of VideoProcessingThread.run for one face, from the
\* extraction of face_region on; r is (x1_scaled, y1_scaled, x2_scaled, y2_scaled)
\* The try block around the ellipse mask (lines 253-270) works on a fresh
\* uint8 mask of the region's shape, non-negative axes and arrays of equal
\* shape, and does not raise; its except branch is therefore not a case here.
video_blur_face(width, height, r, ellipse, blur_intensity) ==
    LET face_region == RegionPixels(r, width, height)
        mask_width == r.x2 - r.x1
        mask_height == r.y2 - r.y1
        pixel_size == 12 - blur_intensity * 2
        \* GaussianBlur changes nothing in a region of a single pixel
        blurred == IF Cardinality(face_region) > 1 THEN face_region ELSE {}
        mask == CvEllipse(mask_width \div 2, mask_height \div 2,
                          TruncDiv((mask_width \div 2) * 95, 100),
                          TruncDiv((mask_height \div 2) * 95, 100),
                          mask_width, mask_height)
    IN IF face_region = {} THEN Drawn({}, FALSE)
       \* cv2.resize to (width // pixel_size, height // pixel_size) raises on 0
       ELSE IF blur_intensity <= 3
               /\ (mask_width \div pixel_size = 0 \/ mask_height \div pixel_size = 0)
       THEN Drawn({}, TRUE)
       ELSE IF ellipse
       THEN Drawn({p \in blurred : <<p[1] - r.x1, p[2] - r.y1>> \in mask}, FALSE)
       ELSE Drawn(blurred, FALSE)

BlurResult(op, width, height, r, ellipse, d) ==
    [op |-> op, width |-> width, height |-> height, region |-> r, ellipse |-> ellipse,
     painted |-> d.painted, error |-> d.error]

\* draw_det(..., replacewith='blur') on a region clipped by anonymize_frame
FxBlurDrawDet ==
    /\ fx.op = "idle"
    /\ \E width \in FxDims, height \in FxDims, ellipse \in BOOLEAN :
       \E r \in FxRegions(width - 1, height - 1) :
          fx' = BlurResult("draw_det_blur", width, height, r, ellipse,
                           draw_det(width, height, r.x1, r.y1, r.x2, r.y2,
                                    Opt("blur", ellipse, "none", 1, TRUE)))

\* the blur branch of the video thread on a region clipped at lines 216-219
FxBlurVideo ==
    /\ fx.op = "idle"
    /\ \E width \in FxDims, height \in FxDims, ellipse \in BOOLEAN,
          blur_intensity \in BlurIntensities :
       \E r \in FxRegions(width, height) :
          fx' = BlurResult("video_blur", width, height, r, ellipse,
                           video_blur_face(width, height, r, ellipse, blur_intensity))

\* Frame content: the colour of every pixel, a colour being named by the pixel
\* that carried it before the operation (all pixels differ at the start).
Pixels(width, height) == (0..(width - 1)) \X (0..(height - 1))
Original(width, height) == [p \in Pixels(width, height) |-> p]

\* cv2.rectangle(frame, pt1, pt2, color, -1) on the content
FillRect(frame, pt1, pt2, color, width, height) ==
    [p \in Pixels(width, height) |->
        IF p \in RectPixels(pt1[1], pt1[2], pt2[1], pt2[2], width, height)
        THEN color ELSE frame[p]]

\* the first cell of the double loop: smallest y, then smallest x
FirstCell(cells) ==
    CHOOSE c \in cells : \A d \in cells : c[2] < d[2] \/ (c[2] = d[2] /\ c[1] <= d[1])

\* the mosaic loops over the cells still to do; a cell spans reach + 1 pixels
RECURSIVE MosaicLoop(_, _, _, _, _, _, _)
MosaicLoop(frame, cells, x2, y2, reach, width, height) ==
    IF cells = {} THEN frame
    ELSE LET c == FirstCell(cells)
             pt2 == <<Min(x2, c[1] + reach), Min(y2, c[2] + reach)>>
             color == frame[c]
         IN MosaicLoop(FillRect(frame, c, pt2, color, width, height),
                       cells \ {c}, x2, y2, reach, width, height)

\* the cells reach one pixel too far
mosaic_pixels_overlapping(frame, width, height, x1, y1, x2, y2, mosaicsize) ==
    MosaicLoop(frame, PyRange(x1, x2, mosaicsize) \X PyRange(y1, y2, mosaicsize),
               x2, y2, mosaicsize, width, height)

\* replacewith == 'mosaic': the content of the frame after the loops
mosaic_pixels(frame, width, height, x1, y1, x2, y2, mosaicsize) ==
    MosaicLoop(frame, PyRange(x1, x2, mosaicsize) \X PyRange(y1, y2, mosaicsize),
               x2, y2, mosaicsize - 1, width, height)

\* draw_det(..., replacewith='mosaic') on a region clipped by anonymize_frame
FxMosaic ==
    /\ fx.op = "idle"
    /\ \E width \in FxDims, height \in FxDims, mosaicsize \in MosaicSizes :
       \E r \in FxRegions(width - 1, height - 1) :
          fx' = [op |-> "mosaic", width |-> width, height |-> height, region |-> r,
                 mosaicsize |-> mosaicsize,
                 after |-> mosaic_pixels(Original(width, height), width, height,
                                         r.x1, r.y1, r.x2, r.y2, mosaicsize)]

\* Pixel values for the image overlay: one channel of a uint8 image
MaxOverlayDim == 4
OverlayDims == 1..MaxOverlayDim
Opaque == 255
Bytes == {0, 7, Opaque}
Alphas == {0, 128, Opaque}

\* the alpha weights applied to the wrong operands
blend_swapped(dst, src, alpha) ==
    (dst * alpha + src * (Opaque - alpha)) \div Opaque

\* frame * (1 - alpha / 255) + img * (alpha / 255), stored into a uint8 array
blend(dst, src, alpha) ==
    (dst * (Opaque - alpha) + src * alpha) \div Opaque

\* replacewith == 'img': the content of the frame after the call; overlay is
\* the resized replaceimg, indexed from the region's top-left pixel, and
\* channels is replaceimg.shape[2]
overlay_pixels(frame, width, height, r, overlay, alpha, channels) ==
    [p \in Pixels(width, height) |->
        IF p \in RegionPixels(r, width, height)
        THEN LET q == <<p[1] - r.x1, p[2] - r.y1>>
             IN IF channels = 3 THEN overlay[q]
                ELSE IF channels = 4 THEN blend(frame[p], overlay[q], alpha)
                ELSE frame[p]
        ELSE frame[p]]

\* draw_det(..., replacewith='img') on a region clipped by anonymize_frame,
\* for a destination and an overlay with some variation from pixel to pixel
FxOverlay ==
    /\ fx.op = "idle"
    /\ \E width \in OverlayDims, height \in OverlayDims, d \in Bytes, v \in Bytes,
          alpha \in Alphas,
          channels \in {3, 4} :
       \E r \in FxRegions(width - 1, height - 1) :
          LET frame == [p \in Pixels(width, height) |-> (d + p[1] + p[2]) % (Opaque + 1)]
              overlay == [q \in Pixels(r.x2 - r.x1, r.y2 - r.y1) |->
                             (v + q[1] * 2 + q[2]) % (Opaque + 1)]
          IN fx' = [op |-> "img", width |-> width, height |-> height, region |-> r,
                    channels |-> channels, alpha |-> alpha, before |-> frame,
                    overlay |-> overlay,
                    after |-> overlay_pixels(frame, width, height, r, overlay, alpha,
                                             channels)]

\* Whole images: anonymize_frame over the list of detections, process_image
MaxDets == 2
MaxImageDim == 2
ImageDims == 1..MaxImageDim
ScoreOffset == 20

\* detections in and around a small frame, and far enough below it for the
\* score text, drawn ScoreOffset pixels above y1, to fall into the frame
ImageBoxes ==
    {b \in Boxes : /\ b.x1 \in {-1, 0} /\ b.x2 - b.x1 \in {1, 2}
                   /\ b.y1 \in {0, 1} /\ b.y2 - b.y1 \in {0, 1}}
    \cup {Box(0, ScoreOffset, 1, ScoreOffset + 1)}
DetLists == UNION {[1..n -> ImageBoxes] : n \in 0..MaxDets}

\* cv2.putText(frame, f'{score:.2f}', (x1, y1 - 20), ...): the text extends to
\* the right of and above its origin; on frames smaller than the text it can
\* touch every pixel of that quarter plane
draw_score_text(width, height, x1, y1) ==
    {p \in Pixels(width, height) : p[1] >= x1 /\ p[2] <= y1 - ScoreOffset}

\* the pixels of the frame a mask method reads as its input: cv2.blur gets
\* frame[y1:y2, x1:x2], the mosaic reads frame[y, x] at each cell's corner
mask_reads(width, height, r, opt) ==
    CASE opt.replacewith = "blur" -> RegionPixels(r, width, height)
      [] opt.replacewith = "mosaic" ->
            {c \in PyRange(r.x1, r.x2, opt.mosaicsize) \X PyRange(r.y1, r.y2, opt.mosaicsize) :
                c \in Pixels(width, height)}
      [] OTHER -> {}

\* what happened to the frame, in order: a mask applied for detection det on
\* region, or the score of detection det written with putText at org
MaskEvent(i, r, reads, painted) ==
    [kind |-> "mask", det |-> i, region |-> r, org |-> <<r.x1, r.y1>>,
     reads |-> reads, painted |-> painted]
TextEvent(i, r, org, painted) ==
    [kind |-> "text", det |-> i, region |-> r, org |-> org, reads |-> {},
     painted |-> painted]

\* the loop of anonymize_frame from detection i on; acc is what the earlier
\* iterations did.  An exception in draw_det leaves the loop.
RECURSIVE AnonymizeFrom(_, _, _, _, _, _, _, _)
AnonymizeFrom(i, acc, dets, ms, width, height, opt, draw_scores) ==
    IF i > Len(dets) THEN acc
    ELSE LET b == dets[i]
             r == clip_bb(scale_bb(b.x1, b.y1, b.x2, b.y2, ms), width, height)
             d == draw_det(width, height, r.x1, r.y1, r.x2, r.y2, opt)
             text == IF draw_scores THEN draw_score_text(width, height, r.x1, r.y1) ELSE {}
             events == <<MaskEvent(i, r, mask_reads(width, height, r, opt), d.painted)>>
                       \o IF draw_scores
                          THEN <<TextEvent(i, r, <<r.x1, r.y1 - ScoreOffset>>, text)>>
                          ELSE <<>>
         IN IF d.error
            THEN [acc EXCEPT !.error = TRUE, !.raised_at = i]
            ELSE AnonymizeFrom(i + 1,
                               [acc EXCEPT !.painted = acc.painted \cup d.painted \cup text,
                                           !.masked = acc.masked \cup {i},
                                           !.events = acc.events \o events],
                               dets, ms, width, height, opt, draw_scores)

\* anonymize_frame(dets, frame, mask_scale, replacewith, ellipse, draw_scores, ...):
\* the pixels it may change, the detections it masked, whether it raised
anonymize_frame_dets(dets, ms, width, height, opt, draw_scores) ==
    AnonymizeFrom(1, [painted |-> {}, masked |-> {}, error |-> FALSE, raised_at |-> 0,
                      events |-> <<>>],
                  dets, ms, width, height, opt, draw_scores)

\* process_image: imread, centerface, anonymize_frame, imsave; the except
\* clause prints and re-raises.  saved: imsave was called, with the frame as
\* anonymize_frame left it
process_image(dets, ms, width, height, opt, draw_scores) ==
    LET a == anonymize_frame_dets(dets, ms, width, height, opt, draw_scores)
    IN [op |-> "process_image", width |-> width, height |-> height, dets |-> dets,
        opt |-> opt, draw_scores |-> draw_scores, painted |-> a.painted,
        masked |-> a.masked, error |-> a.error, raised_at |-> a.raised_at,
        events |-> a.events, saved |-> ~a.error]

ImageOptions ==
    {Opt("none", TRUE, "none", 1, TRUE), Opt("solid", TRUE, "none", 1, TRUE),
     Opt("blur", TRUE, "none", 1, TRUE), Opt("img", TRUE, "none", 1, TRUE)}

FxProcessImage ==
    /\ fx.op = "idle"
    /\ \E width \in ImageDims, height \in ImageDims, dets \in DetLists,
          opt \in ImageOptions, draw_scores \in BOOLEAN :
          fx' = process_image(dets, ScaleDen, width, height, opt, draw_scores)

\* the blur branch of the video thread over the detections of one frame, from
\* detection i on: region, face_region, blur, write back; an empty face_region
\* is skipped with `continue`; draw_scores is not read in this branch
RECURSIVE VideoBlurFrom(_, _, _, _, _, _, _, _)
VideoBlurFrom(i, acc, dets, ms, width, height, ellipse, blur_intensity) ==
    IF i > Len(dets) THEN acc
    ELSE LET r == video_blur_region(dets[i], ms, width, height)
             d == video_blur_face(width, height, r, ellipse, blur_intensity)
         IN IF d.error
            THEN [acc EXCEPT !.error = TRUE, !.raised_at = i]
            ELSE IF RegionPixels(r, width, height) = {}
            THEN VideoBlurFrom(i + 1, acc, dets, ms, width, height, ellipse, blur_intensity)
            ELSE VideoBlurFrom(i + 1,
                               [acc EXCEPT !.painted = acc.painted \cup d.painted,
                                           !.masked = acc.masked \cup {i},
                                           !.events = Append(acc.events,
                                               MaskEvent(i, r, RegionPixels(r, width, height),
                                                         d.painted))],
                               dets, ms, width, height, ellipse, blur_intensity)

\* "Anonymize faces" of VideoProcessingThread.run for one frame: the blur
\* branch, or deface.anonymize_frame(..., replaceimg=None) for the other methods
video_anonymize(dets, ms, width, height, opt, draw_scores, blur_intensity) ==
    LET a == IF opt.replacewith = "blur"
             THEN VideoBlurFrom(1, [painted |-> {}, masked |-> {}, error |-> FALSE,
                                    raised_at |-> 0, events |-> <<>>],
                                dets, ms, width, height, opt.ellipse, blur_intensity)
             ELSE anonymize_frame_dets(dets, ms, width, height, opt, draw_scores)
    IN [op |-> "video_frame", width |-> width, height |-> height, dets |-> dets,
        opt |-> opt, draw_scores |-> draw_scores, painted |-> a.painted,
        masked |-> a.masked, error |-> a.error, raised_at |-> a.raised_at,
        events |-> a.events, saved |-> ~a.error]

\* the five methods of the video application
VideoOptions == ImageOptions \cup {Opt("mosaic", TRUE, "none", 1, TRUE)}

\* faces of one video frame: one in the frame's corner, one larger, and one
\* ScoreOffset pixels lower, whose score text falls onto the first
VideoBoxes == {Box(-1, 0, 1, 1), Box(0, 0, 2, 2), Box(0, ScoreOffset, 1, ScoreOffset + 1)}
VideoDetLists == UNION {[1..n -> VideoBoxes] : n \in 0..MaxDets}

FxVideoFrame ==
    /\ fx.op = "idle"
    /\ \E width \in ImageDims, height \in ImageDims, dets \in VideoDetLists,
          opt \in VideoOptions, draw_scores \in BOOLEAN, blur_intensity \in BlurIntensities :
          /\ opt.replacewith # "blur" => blur_intensity = 4
          /\ fx' = video_anonymize(dets, ScaleDen, width, height, opt, draw_scores,
                                   blur_intensity)

\* ------------------------------------------------------------------------
\* DefaceIntegration.process_frame: detection on a downscaled copy.
\* detection_scale takes the values ds / ScaleDen.  A box the detector
\* returned has integer coordinates here; multiplied by 1 / detection_scale
\* a coordinate is the fraction num / den.
\* ------------------------------------------------------------------------
DownscaleThreshold == 480
MaxDetScale == 5
MaxOver == 1
DetectionScales == 1..MaxDetScale
FrameSides == (DownscaleThreshold - 1)..(DownscaleThreshold + MaxOver)
FrameBoxes == {Box(1, 2, 4, 7), Box(101, 50, 241, 239)}
FrameDetLists == UNION {[1..n -> FrameBoxes] : n \in 0..MaxDets}

Rat(n, d) == [num |-> n, den |-> d]
RatBox(b, n, d) ==
    [x1 |-> Rat(b.x1 * n, d), y1 |-> Rat(b.y1 * n, d),
     x2 |-> Rat(b.x2 * n, d), y2 |-> Rat(b.y2 * n, d)]

\* boxes.astype(int) in anonymize_frame
astype_int(rb) ==
    Box(TruncDiv(rb.x1.num, rb.x1.den), TruncDiv(rb.y1.num, rb.y1.den),
        TruncDiv(rb.x2.num, rb.x2.den), TruncDiv(rb.y2.num, rb.y2.den))

\* the regions anonymize_frame hands to draw_det, in the order of dets
frame_regions(used, ms, width, height) ==
    [i \in 1..Len(used) |->
        LET b == astype_int(used[i])
        IN clip_bb(scale_bb(b.x1, b.y1, b.x2, b.y2, ms), width, height)]

\* process_frame that masks with the boxes as the detector returned them
process_frame_no_rescale(width, height, ds, dets, ms) ==
    LET downscale == ds < ScaleDen /\ Min(height, width) > DownscaleThreshold
        used == [i \in 1..Len(dets) |-> RatBox(dets[i], 1, 1)]
        regions == frame_regions(used, ms, width, height)
    IN [op |-> "process_frame", width |-> width, height |-> height, ds |-> ds,
        downscaled |-> downscale,
        detector_input |-> IF downscale
                           THEN <<TruncDiv(width * ds, ScaleDen), TruncDiv(height * ds, ScaleDen)>>
                           ELSE <<width, height>>,
        dets |-> dets, used |-> used, ms |-> ms,
        input |-> "frame", returned |-> "original_frame",
        masked_size |-> <<width, height>>,
        masks |-> [frame |-> <<>>, original_frame |-> regions]]

\* process_frame(frame, ..., detection_scale): the frame is copied first;
\* detection runs on frame or on a resized copy of it; anonymize_frame masks
\* original_frame, the copy, which is returned
\*   dets: what the detector returned for the image it was given
\*   masks: per buffer, the regions masked in it
process_frame(width, height, ds, dets, ms) ==
    LET downscale == ds < ScaleDen /\ Min(height, width) > DownscaleThreshold
        used == [i \in 1..Len(dets) |->
                    IF downscale THEN RatBox(dets[i], ScaleDen, ds)
                    ELSE RatBox(dets[i], 1, 1)]
        regions == frame_regions(used, ms, width, height)
    IN [op |-> "process_frame", width |-> width, height |-> height, ds |-> ds,
        downscaled |-> downscale,
        detector_input |-> IF downscale
                           THEN <<TruncDiv(width * ds, ScaleDen), TruncDiv(height * ds, ScaleDen)>>
                           ELSE <<width, height>>,
        dets |-> dets, used |-> used, ms |-> ms,
        input |-> "frame", returned |-> "original_frame",
        masked_size |-> <<width, height>>,
        masks |-> [frame |-> <<>>, original_frame |-> regions]]

FxProcessFrame ==
    /\ fx.op = "idle"
    /\ \E width \in FrameSides, height \in FrameSides, ds \in DetectionScales,
          dets \in FrameDetLists, ms \in MaskScales :
          fx' = process_frame(width, height, ds, dets, ms)

\* ------------------------------------------------------------------------
\* The blur intensity mapping of the video thread's blur branch
\* ------------------------------------------------------------------------
MaxBlurIntensity == 10
SliderValues == 1..MaxBlurIntensity

\* max(5, int(501 - (blur_intensity ** 4) * 0.05)), made odd;
\* 501 - b^4 * 0.05 is (10020 - b^4) / 20
blur_kernel_size(blur_intensity) ==
    LET b == blur_intensity
        k == Max(5, TruncDiv(10020 - b * b * b * b, 20))
    IN IF k % 2 = 0 THEN k + 1 ELSE k

\* the number of GaussianBlur calls after the first: max(1, 10 - blur_intensity)
additional_passes(blur_intensity) == Max(1, 10 - blur_intensity)

blur_params(a, b) ==
    [op |-> "blur_params", a |-> a, b |-> b,
     kernel_a |-> blur_kernel_size(a), passes_a |-> 1 + additional_passes(a),
     kernel_b |-> blur_kernel_size(b), passes_b |-> 1 + additional_passes(b)]

\* two frames' worth of settings, to compare
FxBlurParams ==
    /\ fx.op = "idle"
    /\ \E a \in SliderValues, b \in SliderValues : fx' = blur_params(a, b)

\* ------------------------------------------------------------------------
\* One detection masked on a region that is already scaled and clipped:
\* which pixels the operation reads and which it writes.
\* ------------------------------------------------------------------------
MaxMaskDim == 4
MaskDims == 1..MaxMaskDim

\* draw_det indexes the frame with frame[y, x] in the mosaic loop only; the
\* other methods go through slices (which numpy clips to the array) and
\* cv2.rectangle (which clips to the image).  TRUE when some frame[y, x] has
\* an index that is not a position of the frame: numpy raises on it, or
\* counts it from the far edge when it is negative
index_outside(width, height, r, opt) ==
    /\ opt.replacewith = "mosaic"
    /\ \E c \in PyRange(r.x1, r.x2, opt.mosaicsize) \X PyRange(r.y1, r.y2, opt.mosaicsize) :
          c \notin Pixels(width, height)

\* draw_det(frame, score, i, x1, y1, x2, y2, ...) with draw_scores = False
mask_one_draw_det(width, height, r, opt) ==
    LET d == draw_det(width, height, r.x1, r.y1, r.x2, r.y2, opt)
    IN [op |-> "mask_one", path |-> "draw_det", width |-> width, height |-> height,
        region |-> r, opt |-> opt, blur_intensity |-> 0,
        reads |-> mask_reads(width, height, r, opt), painted |-> d.painted,
        index_outside |-> index_outside(width, height, r, opt), error |-> d.error]

\* the blur branch of the video thread for one face: face_region is the
\* slice frame[y1:y2, x1:x2], and the result is assigned to the same slice
mask_one_video_blur(width, height, r, ellipse, blur_intensity) ==
    LET d == video_blur_face(width, height, r, ellipse, blur_intensity)
    IN [op |-> "mask_one", path |-> "video_blur", width |-> width, height |-> height,
        region |-> r, opt |-> Opt("blur", ellipse, "none", 1, TRUE),
        blur_intensity |-> blur_intensity,
        reads |-> RegionPixels(r, width, height), painted |-> d.painted,
        index_outside |-> FALSE, error |-> d.error]

FxMaskOne ==
    /\ fx.op = "idle"
    /\ \E width \in MaskDims, height \in MaskDims :
       \E r \in FxRegions(width, height) :
          \/ \E opt \in Options : fx' = mask_one_draw_det(width, height, r, opt)
          \/ \E ellipse \in BOOLEAN, blur_intensity \in BlurIntensities :
                fx' = mask_one_video_blur(width, height, r, ellipse, blur_intensity)

FxReturn == fx.op # "idle" /\ fx' = FxIdle

\* ------------------------------------------------------------------------
\* DefaceIntegration.process_video (frame batching) and
\* DefaceIntegration.anonymize_frames_parallel.  A frame is named by its
\* position in the source, 1, 2, 3, ...
\* ------------------------------------------------------------------------
MaxBatch == 2
BatchSizes == 1..MaxBatch

VARIABLES
    pv,     \* one call of process_video
    par     \* one call of anonymize_frames_parallel

PVIdle == [pc |-> "idle"]
ParIdle == [pc |-> "idle"]

\* the call, up to the start of the loop: reader and writer are open.
\*   nframes: the frames the reader yields; count: reader.count_frames()
process_video(nframes, count, batch_size, progress_callback) ==
    [pc |-> "read", nframes |-> nframes, count |-> count, batch_size |-> batch_size,
     progress_callback |-> progress_callback,
     read |-> 0, frames_batch |-> <<>>, written |-> <<>>,
     reader_open |-> TRUE, writer_open |-> TRUE, hundreds |-> 0, last100 |-> FALSE,
     progress |-> -1, progress_at |-> 0]

\* `for frame_i, frame in enumerate(reader)`: append the frame to the batch,
\* then decide whether the batch is processed now
pv_read(v) ==
    IF v.read < v.nframes
    THEN LET frame_i == v.read
             batch == Append(v.frames_batch, frame_i + 1)
         IN [v EXCEPT !.read = frame_i + 1, !.frames_batch = batch,
                      !.pc = IF Len(batch) >= v.batch_size \/ frame_i = v.count - 1
                             THEN "flush" ELSE "read"]
    ELSE [v EXCEPT !.pc = "close"]

\* "Update progress" after a batch: min(100, int(100 * (frame_i + 1) / count));
\* frame_i + 1 is the number of frames read; the division raises when
\* count_frames() is 0
pv_progress(v) ==
    IF ~v.progress_callback THEN v
    ELSE IF v.count = 0 THEN [v EXCEPT !.pc = "raised"]
    ELSE emit_progress(v, Min(100, (100 * v.read) \div v.count))

\* the batch is written but not cleared
pv_flush_keeps_batch(v, fail_at) ==
    IF fail_at = 0
    THEN pv_progress([v EXCEPT !.written = v.written \o v.frames_batch, !.pc = "read"])
    ELSE [v EXCEPT !.written = v.written \o SubSeq(v.frames_batch, 1, fail_at - 1),
                   !.pc = "raised"]

\* the inner loop over frames_batch: detect, anonymize, append, in batch order;
\* fail_at > 0: the detector or the masking raises on that element of the batch
pv_flush(v, fail_at) ==
    IF fail_at = 0
    THEN pv_progress([v EXCEPT !.written = v.written \o v.frames_batch,
                               !.frames_batch = <<>>, !.pc = "read"])
    ELSE [v EXCEPT !.written = v.written \o SubSeq(v.frames_batch, 1, fail_at - 1),
                   !.pc = "raised"]

\* reader.close(); writer.close(); return output_path
pv_close(v) == [v EXCEPT !.pc = "returned", !.reader_open = FALSE, !.writer_open = FALSE]

PVRead == pv.pc = "read" /\ pv' = pv_read(pv)

PVFlush ==
    /\ pv.pc = "flush"
    /\ \E fail_at \in 0..Len(pv.frames_batch) : pv' = pv_flush(pv, fail_at)

PVClose == pv.pc = "close" /\ pv' = pv_close(pv)

\* anonymize_frames_parallel: one task per pair of zip(frames, dets_list)
anonymize_frames_parallel(nframes, ndets) ==
    [pc |-> "running", frames |-> [i \in 1..nframes |-> i],
     tasks |-> Min(nframes, ndets), order |-> <<>>, result |-> <<>>]

\* a pool worker finishes process_single for task i
par_worker(a, i) == [a EXCEPT !.order = Append(a.order, i)]

\* list(executor.map(...)): the results in the order of submission
par_collect(a) ==
    [a EXCEPT !.pc = "returned", !.result = [k \in 1..a.tasks |-> a.frames[k]]]

ParWorker ==
    /\ par.pc = "running"
    /\ \E i \in 1..par.tasks : i \notin Range(par.order) /\ par' = par_worker(par, i)

ParCollect ==
    /\ par.pc = "running"
    /\ Len(par.order) = par.tasks
    /\ par' = par_collect(par)

\* ------------------------------------------------------------------------
\* BatchProcessingThread of the image application (face_anonymizer_images):
\* one run over the image files found in the input folders.
\* ------------------------------------------------------------------------
MaxImages == 3

VARIABLES
    ib      \* one BatchProcessingThread

IBIdle == [pc |-> "idle"]

\* BatchProcessingThread.__init__ and QThread.start(); total_files is the
\* number of image files the input folders hold
BatchProcessingThread(total_files) ==
    [pc |-> "start", total_files |-> total_files, i |-> 0, is_running |-> TRUE,
     progress_log |-> <<>>, finished |-> "none", skipped |-> {}, raised |-> {}]

\* run() up to the loop: output folders, the list of image files
\*   how = "ok" | "error" (an exception outside the loop, e.g. makedirs)
ib_setup(b, how) ==
    IF how = "error" THEN [b EXCEPT !.pc = "done", !.finished = "error"]
    ELSE IF b.total_files = 0 THEN [b EXCEPT !.pc = "done", !.finished = "no_images"]
    ELSE [b EXCEPT !.pc = "check"]

\* the head of the loop: the end of the list, or the cancellation test
ib_check(b) ==
    IF b.i >= b.total_files THEN [b EXCEPT !.pc = "done", !.finished = "completed"]
    ELSE IF ~b.is_running THEN [b EXCEPT !.pc = "done", !.finished = "stopped"]
    ELSE [b EXCEPT !.pc = "process"]

\* progress_updated.emit(int((i + 1) / total_files * 100))
ib_progress(b) ==
    [b EXCEPT !.progress_log = Append(b.progress_log, ((b.i + 1) * 100) \div b.total_files)]

\* the body of the loop for image i (0-based)
\*   how = "ok" | "unreadable" (cv2.imread returns None: log, continue)
\*       | "raises" (detector, masking or imwrite raises: log, go on)
ib_process(b, how) ==
    CASE how = "unreadable" ->
            [b EXCEPT !.skipped = b.skipped \cup {b.i + 1}, !.i = b.i + 1, !.pc = "check"]
      [] how = "raises" ->
            [ib_progress([b EXCEPT !.raised = b.raised \cup {b.i + 1}])
                EXCEPT !.i = b.i + 1, !.pc = "check"]
      [] OTHER -> [ib_progress(b) EXCEPT !.i = b.i + 1, !.pc = "check"]

\* BatchProcessingThread.stop()
ib_stop(b) == [b EXCEPT !.is_running = FALSE]

IBSetup == ib.pc = "start" /\ \E how \in {"ok", "error"} : ib' = ib_setup(ib, how)

IBCheck == ib.pc = "check" /\ ib' = ib_check(ib)

IBProcess ==
    /\ ib.pc = "process"
    /\ \E how \in {"ok", "unreadable", "raises"} : ib' = ib_process(ib, how)

IBStop == ib.pc \in {"start", "check", "process"} /\ ib.is_running /\ ib' = ib_stop(ib)

\* ------------------------------------------------------------------------
\* Frame extraction (frame_extraction.py): the thread that walks the list of
\* videos and video2img, which saves one frame per time interval.
\* time_interval is a multiple of 1 / IntervalDen seconds (the spin box has
\* two decimals); fps is taken as a whole number.
\* ------------------------------------------------------------------------
MaxVideos == 2
MaxFps == 2
IntervalDen == 100
MinInterval == 1
MaxInterval == 6000

\* values of the "Time Interval" spin box, in hundredths of a second: its
\* minimum, a half second, a second, its maximum
TimeIntervals == {MinInterval, IntervalDen \div 2, IntervalDen, MaxInterval}

VARIABLES
    fe      \* one frame-extraction thread

FEIdle == [pc |-> "idle"]

\* VideoProcessingThread.__init__ (frame_extraction) and QThread.start()
ExtractionThread(total_files, time_interval) ==
    [pc |-> "check", total_files |-> total_files, time_interval |-> time_interval,
     i |-> 0, is_running |-> TRUE, fps |-> 0, count |-> 0, num_img |-> 0, cut |-> FALSE,
     attempted |-> {}, returns |-> <<>>, raised_at |-> 0, finished |-> "none"]

\* the head of the loop over video_files
fe_check(e) ==
    IF e.i >= e.total_files THEN [e EXCEPT !.pc = "done", !.finished = "completed"]
    ELSE IF ~e.is_running THEN [e EXCEPT !.pc = "done", !.finished = "stopped"]
    ELSE [e EXCEPT !.pc = "folder"]

\* try_create_folders_on_timestamp and the skip of an existing folder
\*   is_fresh: the folder did not exist (or overwrite_existing is set)
fe_folder(e, is_fresh) ==
    IF is_fresh THEN [e EXCEPT !.pc = "open"]
    ELSE [e EXCEPT !.i = e.i + 1, !.pc = "check"]

\* back in run() after video2img returned num_img: log, progress, next video
fe_returned(e, num_img) ==
    [e EXCEPT !.returns = Append(e.returns,
                                 [video |-> e.i + 1, num_img |-> num_img, count |-> e.count,
                                  fps |-> e.fps, cut |-> e.cut]),
              !.i = e.i + 1, !.pc = "check"]

\* an exception inside the loop of run(): only the outer except clause is
\* there to catch it; it emits processing_finished with the error text
fe_raise(e) == [e EXCEPT !.pc = "done", !.finished = "error", !.raised_at = e.i + 1]

\* video2img up to its loop: open the capture, read the frame rate
\*   opened: video_cap.isOpened(); fps: video_cap.get(cv2.CAP_PROP_FPS)
video2img_open(e, opened, fps) ==
    LET called == [e EXCEPT !.attempted = e.attempted \cup {e.i + 1}, !.fps = fps,
                            !.count = 0, !.num_img = 0, !.cut = FALSE]
    IN IF opened THEN [called EXCEPT !.pc = "read"] ELSE fe_returned(called, 0)

\* int(frame_intvl) with frame_intvl = fps * time_intvl
frame_intvl(e) == (e.fps * e.time_interval) \div IntervalDen

\* one pass of `while success and self.is_running`
\*   success: video_cap.read() delivered a frame
video2img_read(e, success) ==
    IF ~e.is_running THEN fe_returned([e EXCEPT !.cut = TRUE], e.num_img)
    ELSE IF ~success THEN fe_returned(e, e.num_img)
    ELSE LET count == e.count + 1
         IN \* time_stamp = count / fps
            IF e.fps = 0 THEN fe_raise([e EXCEPT !.count = count])
            \* count % int(frame_intvl)
            ELSE IF frame_intvl(e) = 0 THEN fe_raise([e EXCEPT !.count = count])
            ELSE IF count % frame_intvl(e) = 0
            THEN [e EXCEPT !.count = count, !.num_img = e.num_img + 1]
            ELSE [e EXCEPT !.count = count]

\* VideoProcessingThread.stop()
fe_stop(e) == [e EXCEPT !.is_running = FALSE]

FECheck == fe.pc = "check" /\ fe' = fe_check(fe)

FEFolder == fe.pc = "folder" /\ \E is_fresh \in BOOLEAN : fe' = fe_folder(fe, is_fresh)

FEOpen ==
    /\ fe.pc = "open"
    /\ \E opened \in BOOLEAN, fps \in 0..MaxFps :
          /\ ~opened => fps = 0
          /\ fe' = video2img_open(fe, opened, fps)

FERead ==
    /\ fe.pc = "read"
    /\ \E success \in BOOLEAN :
          /\ success => fe.count < MaxFrames
          /\ fe' = video2img_read(fe, success)

FEStop == fe.pc \in {"check", "folder", "open", "read"} /\ fe.is_running /\ fe' = fe_stop(fe)

\* ------------------------------------------------------------------------
\* Specifications
\* ------------------------------------------------------------------------
vars == <<appvars, geo, mk, pv, par, fx, ib, fe>>
libvars == <<geo, mk, pv, par, fx, ib, fe>>
LibIdle ==
    /\ geo = GeoIdle /\ mk = MaskIdle /\ pv = PVIdle /\ par = ParIdle /\ fx = FxIdle
    /\ ib = IBIdle /\ fe = FEIdle

\* the desktop application, from construction
Init == InitApp /\ LibIdle
Next == NextApp /\ UNCHANGED libvars
Spec == Init /\ [][Next]_vars

\* the geometry functions on their own
InitGeom == InitApp /\ LibIdle
NextGeom == (GeoCall \/ GeoReturn) /\ UNCHANGED <<appvars, mk, pv, par, fx, ib, fe>>
SpecGeom == InitGeom /\ [][NextGeom]_vars

\* anonymize_frame on one detection
InitMask == InitApp /\ LibIdle
NextMask == (MaskCall \/ MaskReturn) /\ UNCHANGED <<appvars, geo, pv, par, fx, ib, fe>>
SpecMask == InitMask /\ [][NextMask]_vars

\* the three frame pipelines, one per behaviour: the VideoProcessingThread
\* started by the batch scheduler for a one-video queue (and stoppable with
\* Force Stop), a call of process_video, a call of anonymize_frames_parallel
OneVideoQueued ==
    [batch_list |-> <<[path |-> 1, bg |-> Pending]>>, output_file |-> TRUE,
     is_processing |-> FALSE, current_batch_index |-> -1, processing_thread |-> 0,
     ui_disabled |-> FALSE, force_stop_enabled |-> FALSE, timers |-> 0, signals |-> <<>>,
     threads |-> [t \in ThreadIds |-> NoThread], started |-> <<>>, stop_at |-> -1,
     results |-> NoResults, dup_rejected |-> FALSE, batch_report |-> NoReport]

InitWorld(w) ==
    /\ batch_list = w.batch_list
    /\ output_file = w.output_file
    /\ is_processing = w.is_processing
    /\ current_batch_index = w.current_batch_index
    /\ processing_thread = w.processing_thread
    /\ ui_disabled = w.ui_disabled
    /\ force_stop_enabled = w.force_stop_enabled
    /\ timers = w.timers
    /\ signals = w.signals
    /\ threads = w.threads
    /\ started = w.started
    /\ stop_at = w.stop_at
    /\ results = w.results
    /\ dup_rejected = w.dup_rejected
    /\ batch_report = w.batch_report

InitFrames ==
    \/ InitWorld(start_batch_processing(OneVideoQueued)) /\ LibIdle
    \/ /\ InitApp /\ geo = GeoIdle /\ mk = MaskIdle /\ fx = FxIdle /\ par = ParIdle /\ ib = IBIdle /\ fe = FEIdle
       /\ \E nframes \in 0..MaxFrames, count \in 0..(MaxFrames + 1),
             batch_size \in BatchSizes, progress_callback \in BOOLEAN :
             pv = process_video(nframes, count, batch_size, progress_callback)
    \/ /\ InitApp /\ geo = GeoIdle /\ mk = MaskIdle /\ fx = FxIdle /\ pv = PVIdle /\ ib = IBIdle /\ fe = FEIdle
       /\ \E nframes \in 0..MaxFrames, ndets \in 0..MaxFrames :
             par = anonymize_frames_parallel(nframes, ndets)

NextFrames ==
    \/ (\E t \in ThreadIds : ThreadSetup(t)) /\ UNCHANGED libvars
    \/ (\E t \in ThreadIds : ThreadOpen(t)) /\ UNCHANGED libvars
    \/ (\E t \in ThreadIds : ThreadRead(t)) /\ UNCHANGED libvars
    \/ (\E t \in ThreadIds : ThreadCheck(t)) /\ UNCHANGED libvars
    \/ (\E t \in ThreadIds : ThreadProcess(t)) /\ UNCHANGED libvars
    \/ (\E t \in ThreadIds : ThreadClose(t)) /\ UNCHANGED libvars
    \/ ForceStop /\ UNCHANGED libvars
    \/ PVRead /\ UNCHANGED <<appvars, geo, mk, par, fx, ib, fe>>
    \/ PVFlush /\ UNCHANGED <<appvars, geo, mk, par, fx, ib, fe>>
    \/ PVClose /\ UNCHANGED <<appvars, geo, mk, par, fx, ib, fe>>
    \/ ParWorker /\ UNCHANGED <<appvars, geo, mk, pv, fx, ib, fe>>
    \/ ParCollect /\ UNCHANGED <<appvars, geo, mk, pv, fx, ib, fe>>
SpecFrames == InitFrames /\ [][NextFrames]_vars

\* one run of the image application's BatchProcessingThread
InitImages ==
    /\ InitApp /\ geo = GeoIdle /\ mk = MaskIdle /\ fx = FxIdle /\ pv = PVIdle /\ par = ParIdle
    /\ fe = FEIdle
    /\ \E total_files \in 0..MaxImages : ib = BatchProcessingThread(total_files)
NextImages ==
    \/ IBSetup /\ UNCHANGED <<appvars, geo, mk, pv, par, fx, fe>>
    \/ IBCheck /\ UNCHANGED <<appvars, geo, mk, pv, par, fx, fe>>
    \/ IBProcess /\ UNCHANGED <<appvars, geo, mk, pv, par, fx, fe>>
    \/ IBStop /\ UNCHANGED <<appvars, geo, mk, pv, par, fx, fe>>
SpecImages == InitImages /\ [][NextImages]_vars

\* one run of the frame-extraction thread
InitExtract ==
    /\ InitApp /\ geo = GeoIdle /\ mk = MaskIdle /\ fx = FxIdle /\ pv = PVIdle /\ par = ParIdle
    /\ ib = IBIdle
    /\ \E total_files \in 1..MaxVideos, time_interval \in TimeIntervals :
          fe = ExtractionThread(total_files, time_interval)
NextExtract ==
    \/ FECheck /\ UNCHANGED <<appvars, geo, mk, pv, par, fx, ib>>
    \/ FEFolder /\ UNCHANGED <<appvars, geo, mk, pv, par, fx, ib>>
    \/ FEOpen /\ UNCHANGED <<appvars, geo, mk, pv, par, fx, ib>>
    \/ FERead /\ UNCHANGED <<appvars, geo, mk, pv, par, fx, ib>>
    \/ FEStop /\ UNCHANGED <<appvars, geo, mk, pv, par, fx, ib>>
SpecExtract == InitExtract /\ [][NextExtract]_vars

\* single masking operations on a frame
InitEffect == InitApp /\ LibIdle
NextEffect ==
    \/ FxBlurDrawDet /\ UNCHANGED <<appvars, geo, mk, pv, par, ib, fe>>
    \/ FxBlurVideo /\ UNCHANGED <<appvars, geo, mk, pv, par, ib, fe>>
    \/ FxMosaic /\ UNCHANGED <<appvars, geo, mk, pv, par, ib, fe>>
    \/ FxOverlay /\ UNCHANGED <<appvars, geo, mk, pv, par, ib, fe>>
    \/ FxProcessImage /\ UNCHANGED <<appvars, geo, mk, pv, par, ib, fe>>
    \/ FxProcessFrame /\ UNCHANGED <<appvars, geo, mk, pv, par, ib, fe>>
    \/ FxVideoFrame /\ UNCHANGED <<appvars, geo, mk, pv, par, ib, fe>>
    \/ FxBlurParams /\ UNCHANGED <<appvars, geo, mk, pv, par, ib, fe>>
    \/ FxMaskOne /\ UNCHANGED <<appvars, geo, mk, pv, par, ib, fe>>
    \/ FxReturn /\ UNCHANGED <<appvars, geo, mk, pv, par, ib, fe>>
SpecEffect == InitEffect /\ [][NextEffect]_vars

\* ------------------------------------------------------------------------
\* Properties of the video batch application (specification Spec)
\* ------------------------------------------------------------------------
Rows == 1..Len(batch_list)
RunningThreads == {t \in ThreadIds : IsRunning(threads[t])}

\* C1: if the cancellation flag is set after frame k was appended and before
\* the next per-iteration flag check, no further frame is detected, masked or
\* appended: the sink holds exactly k frames from then on, and when the run ends.
C1_CancelAfterFrameK ==
    \A t \in ThreadIds :
        threads[t].cancelK >= 0 =>
            /\ Len(threads[t].written) = threads[t].cancelK
            /\ threads[t].detected = threads[t].cancelK

\* a run cancelled after its first frame has ended
C1_Witness ==
    \E t \in ThreadIds :
        /\ threads[t].pc = "done"
        /\ threads[t].saw_stop
        /\ threads[t].cancelK = 1
        /\ threads[t].written = <<1>>

\* C2: a run that ends because the cancellation flag was observed does not
\* report the 'completed' outcome, and the scheduler does not mark its job
\* Succeeded.
C2_StoppedRunNotCompleted ==
    /\ \A t \in ThreadIds :
          (threads[t].pc = "done" /\ threads[t].saw_stop) => threads[t].outcome # "completed"
    /\ is_processing =>
          \A i \in Rows : results[i].saw_stop => Status(batch_list[i]) # Succeeded

\* C3: partial-failure isolation.  In a batch where no stop was requested,
\* (a) when the scheduler handles a failed run that is not the last job, it
\*     marks that job Failed and schedules the next job, and
\* (b) when the batch ends, every job of the queue was started, none is
\*     Pending or Running, and every job whose run failed is Failed.
C3_FailureDelivered ==
    /\ signals # <<>>
    /\ signals' = Tail(signals)
    /\ ~ContainsCompleted(Head(signals).text)
    /\ is_processing
    /\ stop_at = -1

C4_StopEndsBatch ==
    stop_at >= 0 =>
        /\ \A k \in 1..Len(started) : started[k] <= stop_at
        /\ is_processing => \A i \in Rows : (i - 1 > stop_at) => Status(batch_list[i]) # Running

\* C5: jobs run strictly sequentially and in queue order: at most one run is
\* in progress and at most one job is Running at any time, the jobs of a batch
\* are started in the order 0, 1, 2, ... and a run in progress belongs to the
\* job started last; while the inter-job timer is pending no run is in progress.
C5_SequentialInOrder ==
    /\ Cardinality(RunningThreads) <= 1
    /\ Cardinality({i \in Rows : Status(batch_list[i]) = Running}) <= 1
    /\ started = [k \in 1..Len(started) |-> k - 1]
    /\ \A t \in RunningThreads :
          /\ started # <<>>
          /\ threads[t].job = started[Len(started)]
          /\ threads[t].job = current_batch_index
          /\ Status(batch_list[threads[t].job + 1]) = Running
    /\ timers <= 1
    /\ timers = 1 => RunningThreads = {}

\* the second job of a batch is running after the first one ended on a stop request
C5_Witness ==
    /\ started = <<0, 1>>
    /\ stop_at = 0
    /\ \E t \in RunningThreads : threads[t].job = 1 /\ threads[t].pc = "process"

\* C7: no two queue entries carry the same input path, and adding a path that
\* is already present leaves the queue unchanged.
C7_NoDuplicatePaths ==
    /\ \A i, j \in Rows : batch_list[i].path = batch_list[j].path => i = j
    /\ \A i \in Rows : add_to_batch(batch_list, batch_list[i].path) = batch_list

\* an add of a listed path was rejected and the queue was reordered since
C7_Witness ==
    /\ dup_rejected
    /\ Len(batch_list) = 2
    /\ batch_list[1].path = 2
    /\ batch_list[2].path = 1

\* ------------------------------------------------------------------------
\* Properties of the geometry (specification SpecGeom)
\* ------------------------------------------------------------------------
\* a region inside the frame with positive extent
ValidRegion(r, width, height) ==
    /\ 0 <= r.x1 /\ r.x1 < r.x2 /\ r.x2 <= width
    /\ 0 <= r.y1 /\ r.y1 < r.y2 /\ r.y2 <= height
\* a region that holds no pixel, as the half-open rectangle [x1, x2) x [y1, y2)
ZeroArea(r) == r.x2 <= r.x1 \/ r.y2 <= r.y1

C10_ScaleIdentity ==
    (geo.pc = "done" /\ geo.ms = ScaleDen) => geo.scaled = geo.box

\* a box of positive extent went through scale_bb with mask_scale 1.0
C10_Witness ==
    /\ geo.pc = "done"
    /\ geo.ms = ScaleDen
    /\ geo.box.x2 - geo.box.x1 = 2
    /\ geo.box.y2 - geo.box.y1 = 1
    /\ geo.scaled = geo.box

\* ------------------------------------------------------------------------
\* Properties of the mask application (specification SpecMask)
\* ------------------------------------------------------------------------
\* C9: for a detection whose scaled and clipped region has x2 <= x1 or
\* y2 <= y1, anonymizing the frame changes no pixel and raises no error, for
\* every mask method.
C9_EmptyRegionUntouched ==
    (mk.pc = "done" /\ ZeroArea(mk.region)) => (mk.painted = {} /\ ~mk.error)

\* ------------------------------------------------------------------------
\* Properties of the frame pipelines (specification SpecFrames)
\* ------------------------------------------------------------------------
\* the first n frames of the source, in source order
FirstFrames(n) == [i \in 1..n |-> i]

\* C6: the frames appended to the writer are, in order and without
\* repetition, the first frames read from the reader: frame j is never
\* appended before frame i < j, no frame is appended twice, and no frame is
\* appended that was not read.  The list returned by the parallel map keeps
\* the order of its input.
C6_WriteOrderIsReadOrder ==
    /\ \A t \in ThreadIds :
          /\ threads[t].written = FirstFrames(Len(threads[t].written))
          /\ Len(threads[t].written) <= threads[t].pos
    /\ pv.pc # "idle" =>
          /\ pv.written = FirstFrames(Len(pv.written))
          /\ Len(pv.written) <= pv.read
    /\ par.pc = "returned" => par.result = SubSeq(par.frames, 1, par.tasks)

\* process_video has written two full batches, and the thread loop two frames
C6_WitnessBatches ==
    /\ pv.pc = "returned"
    /\ pv.batch_size = 1
    /\ pv.written = <<1, 2>>

C6_Witness ==
    \/ C6_WitnessBatches
    \/ \E t \in ThreadIds : threads[t].pc = "done" /\ threads[t].written = <<1, 2>>

\* ------------------------------------------------------------------------
\* Properties of single masking operations (specification SpecEffect)
\* ------------------------------------------------------------------------
\* the pixels of the frame on or inside the ellipse inscribed in the region:
\* centre at the region's middle pixel, radii half the region's extent
InscribedEllipse(r) ==
    LET cx == r.x1 + (r.x2 - r.x1) \div 2
        cy == r.y1 + (r.y2 - r.y1) \div 2
        rx == (r.x2 - r.x1) \div 2
        ry == (r.y2 - r.y1) \div 2
    IN {p \in (r.x1..(r.x2 - 1)) \X (r.y1..(r.y2 - 1)) :
          (p[1] - cx) * (p[1] - cx) * ry * ry + (p[2] - cy) * (p[2] - cy) * rx * rx
             <= rx * rx * ry * ry}

IsBlur == fx.op \in {"draw_det_blur", "video_blur"}

\* C11: blur with ellipse = True changes no pixel outside the ellipse
\* inscribed in the region (in particular none outside the region's
\* rectangle), for every region of positive extent inside the frame.
C11_EllipseOutsideUntouched ==
    (IsBlur /\ fx.ellipse) => fx.painted \subseteq InscribedEllipse(fx.region)

\* an elliptical blur that changed a pixel and left a corner of the rectangle
\* alone, in draw_det
C11_WitnessDrawDet ==
    /\ fx.op = "draw_det_blur" /\ fx.ellipse /\ ~fx.error
    /\ fx.painted # {}
    /\ <<fx.region.x1, fx.region.y1>> \notin fx.painted

\* the same in the blur branch of the video thread
C11_WitnessVideo ==
    /\ fx.op = "video_blur" /\ fx.ellipse /\ ~fx.error
    /\ fx.painted # {}
    /\ <<fx.region.x1, fx.region.y1>> \notin fx.painted

C11_Witness == C11_WitnessDrawDet \/ C11_WitnessVideo

\* the grid of the region [x1, x2) x [y1, y2): the cell whose top-left pixel
\* is c, clipped to the region
GridCell(r, c, size) ==
    (c[1]..Min(r.x2 - 1, c[1] + size - 1)) \X (c[2]..Min(r.y2 - 1, c[2] + size - 1))
GridCorners(r, size) ==
    {c \in (r.x1..(r.x2 - 1)) \X (r.y1..(r.y2 - 1)) :
        (c[1] - r.x1) % size = 0 /\ (c[2] - r.y1) % size = 0}

\* C12: after the mosaic, every pixel of every grid cell of the region has
\* the colour that the cell's top-left pixel had before the operation, for
\* every region and every mosaic size.
C12_MosaicCellsUniform ==
    fx.op = "mosaic" =>
        \A c \in GridCorners(fx.region, fx.mosaicsize) :
            \A p \in GridCell(fx.region, c, fx.mosaicsize) : fx.after[p] = c

\* a mosaic of at least two cells in each direction, with cells of more than
\* one pixel
C12_Witness ==
    /\ fx.op = "mosaic"
    /\ fx.mosaicsize = 2
    /\ fx.region.x2 - fx.region.x1 >= 4
    /\ fx.region.y2 - fx.region.y1 >= 3
    /\ fx.after[<<fx.region.x1 + 3, fx.region.y1 + 1>>] = <<fx.region.x1 + 2, fx.region.y1>>

\* C13: an overlay whose alpha channel is 255 everywhere makes every pixel of
\* the region equal to the resized overlay's colour at that place, whatever
\* the frame held there before.
C13_OpaqueOverlayExact ==
    (fx.op = "img" /\ fx.channels = 4 /\ fx.alpha = Opaque) =>
        \A p \in RegionPixels(fx.region, fx.width, fx.height) :
            fx.after[p] = fx.overlay[<<p[1] - fx.region.x1, p[2] - fx.region.y1>>]

\* an opaque RGBA overlay was laid over pixels of a different colour
C13_Witness ==
    /\ fx.op = "img" /\ fx.channels = 4 /\ fx.alpha = Opaque
    /\ fx.region.x2 - fx.region.x1 >= 2
    /\ \E p \in RegionPixels(fx.region, fx.width, fx.height) :
          /\ fx.before[p] # fx.after[p]
          /\ fx.after[p] = fx.overlay[<<p[1] - fx.region.x1, p[2] - fx.region.y1>>]

\* C14: with method 'none' and draw_scores false, process_image changes no
\* pixel of the frame it read, whatever the detections are, and saves that
\* frame: the image handed to the writer equals the image read.
C14_NoneLeavesFrameUnchanged ==
    (fx.op = "process_image" /\ fx.opt.replacewith = "none" /\ ~fx.draw_scores) =>
        (fx.painted = {} /\ ~fx.error /\ fx.saved)

\* two detections, one of them over the frame, went through method 'none'
C14_Witness ==
    /\ fx.op = "process_image" /\ fx.opt.replacewith = "none" /\ ~fx.draw_scores
    /\ Len(fx.dets) = 2
    /\ fx.masked = {1, 2}
    /\ fx.dets[1].x1 = 0 /\ fx.dets[1].y1 = 0 /\ fx.dets[1].x2 = 1 /\ fx.dets[1].y2 = 1
    /\ fx.width = 2 /\ fx.height = 2
    /\ fx.saved

\* ------------------------------------------------------------------------
\* Properties of a run's progress events and resources (specification SpecFrames)
\* ------------------------------------------------------------------------
\* C15: a run that completes has emitted the 100% progress event exactly
\* once, as its last progress event; a run that was stopped or that failed
\* has emitted none.  This holds for every frame count the source reports,
\* zero or different from the number of frames read included.
C15_FinalProgressExactlyOnce ==
    /\ \A t \in ThreadIds :
          threads[t].pc = "done" =>
             /\ (threads[t].outcome = "completed" /\ ~threads[t].saw_stop)
                   => (threads[t].hundreds = 1 /\ threads[t].last100)
             /\ (threads[t].saw_stop \/ threads[t].outcome \in {"failed", "setup_error"})
                   => threads[t].hundreds = 0
    /\ (pv.pc = "returned" /\ pv.progress_callback) => (pv.hundreds = 1 /\ pv.last100)
    /\ pv.pc = "raised" => pv.hundreds = 0

\* C16: whenever a video run has ended, completed, stopped or failed (a
\* per-frame exception after the reader and the writer were opened included),
\* the source reader and the sink writer are both closed.
C16_ResourcesReleasedAtEnd ==
    /\ \A t \in ThreadIds :
          threads[t].pc = "done" => (~threads[t].reader_open /\ ~threads[t].writer_open)
    /\ pv.pc \in {"returned", "raised"} => (~pv.reader_open /\ ~pv.writer_open)

\* ------------------------------------------------------------------------
\* Properties of error handling
\* ------------------------------------------------------------------------
\* C17: a failure while masking one region is absorbed: that region is
\* skipped, every other detection of the frame is still masked, the frame is
\* still written and no error leaves the operation.  In the blur branch of
\* the video thread a region too small for the pixelation resize raises
\* nothing.
C17_MaskFailureAbsorbed ==
    /\ (fx.op = "process_image" /\ fx.raised_at > 0) =>
          /\ ~fx.error
          /\ fx.saved
          /\ \A i \in 1..Len(fx.dets) : i # fx.raised_at => i \in fx.masked
    /\ fx.op = "video_blur" => ~fx.error

\* the jobs of the running batch whose run has ended and been handled by
\* batch_video_finished
Handled == {i \in Rows : is_processing /\ results[i].outcome # "none" /\ i <= current_batch_index}

\* the GUI thread handles the finished signal of thread t, which ended at
\* `where`, while t's job is the scheduler's current one
HandlesFailure(t, where) ==
    /\ threads[t].pc = "done"
    /\ threads[t].failed_at = where
    /\ threads'[t].pc = "none"
    /\ is_processing
    /\ current_batch_index = threads[t].job
    /\ threads[t].job < Len(batch_list)

\* the row of thread t's job is Failed once the step is taken
MarkedFailed(t) == Status(batch_list'[threads[t].job + 1]) = Failed

\* C18: a run whose source cannot be opened or whose sink cannot be created
\* fails at opening: it reports failure, it has passed no frame to the
\* detector and appended no frame to the sink, and the scheduler marks its
\* job Failed when it handles the report.
C18_OpenFailureIsFatal ==
    /\ [](\A t \in ThreadIds :
            threads[t].failed_at = "open" =>
               /\ threads[t].pc = "done"
               /\ threads[t].outcome = "failed"
               /\ threads[t].detected = 0
               /\ threads[t].written = <<>>
               /\ threads[t].pos = 0)
    /\ [][\A t \in ThreadIds : HandlesFailure(t, "open") => MarkedFailed(t)]_appvars
    /\ [](\A i \in Handled : results[i].outcome = "failed" => Status(batch_list[i]) = Failed)

\* the second job of a two-job batch failed at opening; its report is
\* queued for the scheduler and the first job is already marked
C18_Witness ==
    /\ Len(batch_list) = 2
    /\ is_processing
    /\ current_batch_index = 1
    /\ Status(batch_list[1]) \in {Succeeded, Failed}
    /\ \E t \in ThreadIds :
          /\ threads[t].job = 1
          /\ threads[t].failed_at = "open"
          /\ signals = <<[text |-> MsgFailed, from |-> t]>>

\* C19: when the detector raises on frame k the run ends at once and reports
\* failure; frame k and the later frames are not appended, the frames
\* 1..k-1 appended before stay, in order; the scheduler marks the job Failed
\* when it handles the report.
C19_DetectorFailureIsFatal ==
    /\ [](\A t \in ThreadIds :
            threads[t].failed_at = "detect" =>
               /\ threads[t].pc = "done"
               /\ threads[t].outcome = "failed"
               /\ threads[t].written = FirstFrames(threads[t].pos - 1)
               /\ threads[t].detected = threads[t].pos)
    /\ [][\A t \in ThreadIds : HandlesFailure(t, "detect") => MarkedFailed(t)]_appvars

\* the detector raised on the second frame of a run; the first frame stays
C19_Witness ==
    \E t \in ThreadIds :
        /\ threads[t].failed_at = "detect"
        /\ threads[t].pos = 2
        /\ threads[t].written = <<1>>
        /\ threads[t].pc = "done"
        /\ is_processing
        /\ current_batch_index = threads[t].job
        /\ signals = <<[text |-> MsgFailed, from |-> t]>>

\* ------------------------------------------------------------------------
\* Job status (specification Spec); a job is a row of the queue, named by
\* its input path
\* ------------------------------------------------------------------------
Terminal == {Succeeded, Failed}
Queued(list) == {list[i].path : i \in 1..Len(list)}
RowOf(list, path) == CHOOSE i \in 1..Len(list) : list[i].path = path
StatusOf(list, path) == Status(list[RowOf(list, path)])

\* the status may stay, or move from Pending to Running, or from Running to a
\* terminal status
LegalMove(old, new) ==
    \/ new = old
    \/ old = Pending /\ new = Running
    \/ old = Running /\ new \in Terminal

\* C20: in every step, the status of every job that stays in the queue
\* either stays or moves Pending -> Running or Running -> terminal (so a
\* terminal status never changes again), and a job is given a terminal
\* status only when the finished signal of its own run is handled.
C20_StatusMovesForwardOnly ==
    [][ \A path \in Queued(batch_list) \cap Queued(batch_list') :
          LET old == StatusOf(batch_list, path)
              new == StatusOf(batch_list', path)
          IN /\ LegalMove(old, new)
             /\ (new \in Terminal /\ new # old) =>
                   /\ signals # <<>>
                   /\ threads[Head(signals).from].job + 1 = RowOf(batch_list, path)
      ]_appvars

\* ------------------------------------------------------------------------
\* Batch report
\* ------------------------------------------------------------------------
\* the number of jobs whose row shows the given status
CountOf(status) == Cardinality({i \in Rows : Status(batch_list[i]) = status})

\* C21: when a batch ends the scheduler reports how many jobs succeeded, how
\* many failed and how many remain, and these are the numbers of rows marked
\* Succeeded, Failed and Pending, summing to the queue length. The message
\* box carries one count of finished jobs, "Processed N of M", and no count
\* of failures: N stands for the succeeded jobs, the failures reported are 0.
C21_CountsMatchStatuses ==
    batch_report.shown =>
        /\ batch_report.processed_count = CountOf(Succeeded)
        /\ 0 = CountOf(Failed)
        /\ batch_report.remaining = CountOf(Pending)
        /\ batch_report.processed_count + batch_report.remaining = Len(batch_list)

\* ------------------------------------------------------------------------
\* Properties of process_frame (specification SpecEffect)
\* ------------------------------------------------------------------------
\* C22: process_frame is an in-place transform: the frame it returns is the
\* buffer it was given, and after the call the caller's frame shows a masked
\* region for every detection.
C22_ProcessFrameInPlace ==
    fx.op = "process_frame" =>
        /\ fx.returned = fx.input
        /\ Len(fx.masks[fx.input]) = Len(fx.dets)

\* the detector ran on the image described by detection_scale and the frame size
DetectedOnResizedCopy ==
    /\ fx.ds < ScaleDen
    /\ fx.detector_input[1] * ScaleDen <= fx.width * fx.ds
    /\ (fx.detector_input[1] + 1) * ScaleDen > fx.width * fx.ds
    /\ fx.detector_input[2] * ScaleDen <= fx.height * fx.ds
    /\ (fx.detector_input[2] + 1) * ScaleDen > fx.height * fx.ds

\* coordinate q of the box used for masking is c / detection_scale
TimesInverseScale(q, c) == q.num * fx.ds = c * ScaleDen * q.den

\* C26: detection runs on a resized copy exactly when detection_scale < 1.0
\* and min(width, height) > 480, and then every coordinate of every returned
\* box is multiplied by 1 / detection_scale before masking; otherwise
\* detection runs on the frame itself and the boxes are used as returned.
\* Masking is done at the original resolution in both cases.
C26_DownscaleRule ==
    fx.op = "process_frame" =>
        /\ fx.downscaled <=>
              (fx.ds < ScaleDen /\ fx.width > DownscaleThreshold
                                /\ fx.height > DownscaleThreshold)
        /\ fx.downscaled => DetectedOnResizedCopy
        /\ ~fx.downscaled => fx.detector_input = <<fx.width, fx.height>>
        /\ \A i \in 1..Len(fx.dets) :
              IF fx.downscaled
              THEN /\ TimesInverseScale(fx.used[i].x1, fx.dets[i].x1)
                   /\ TimesInverseScale(fx.used[i].y1, fx.dets[i].y1)
                   /\ TimesInverseScale(fx.used[i].x2, fx.dets[i].x2)
                   /\ TimesInverseScale(fx.used[i].y2, fx.dets[i].y2)
              ELSE astype_int(fx.used[i]) = fx.dets[i] /\ fx.used[i].x1.den = 1
        /\ fx.masked_size = <<fx.width, fx.height>>
        /\ Len(fx.masks[fx.returned]) = Len(fx.dets)
        /\ \A i \in 1..Len(fx.dets) :
              LET b == astype_int(fx.used[i])
              IN fx.masks[fx.returned][i]
                    = clip_bb(scale_bb(b.x1, b.y1, b.x2, b.y2, fx.ms), fx.width, fx.height)

\* a frame larger than the threshold, detection at 3/4 of its size, one box
\* whose coordinates times 4/3 are not all integers
C26_Witness ==
    /\ fx.op = "process_frame"
    /\ fx.downscaled
    /\ fx.ds = 3
    /\ Len(fx.dets) >= 1
    /\ fx.dets[1] = Box(1, 2, 4, 7)
    /\ astype_int(fx.used[1]) = Box(1, 2, 5, 9)

\* the same frame sizes around the threshold without downscaling
C26_WitnessFull ==
    /\ fx.op = "process_frame"
    /\ ~fx.downscaled
    /\ fx.ds < ScaleDen
    /\ fx.width = DownscaleThreshold
    /\ fx.height > DownscaleThreshold
    /\ Len(fx.dets) >= 1

\* ------------------------------------------------------------------------
\* More properties of the box geometry (specification SpecGeom)
\* ------------------------------------------------------------------------
\* n / d rounded to the nearest integer, exact halves away from zero
RoundHalfAway(n, d) ==
    IF n >= 0 THEN (2 * n + d) \div (2 * d) ELSE -((2 * (-n) + d) \div (2 * d))

\* C23: for every integer box and mask_scale >= 1.0, with s = mask_scale - 1,
\* scale_bb returns (x1 - w*s, y1 - h*s, x2 + w*s, y2 + h*s), each coordinate
\* rounded to the nearest integer, exact halves away from zero.
C23_ScaleBoxRounding ==
    (geo.pc = "done" /\ geo.ms >= ScaleDen) =>
        LET b == geo.box
            s == geo.ms - ScaleDen
            w == b.x2 - b.x1
            h == b.y2 - b.y1
        IN geo.scaled = Box(RoundHalfAway(ScaleDen * b.x1 - w * s, ScaleDen),
                            RoundHalfAway(ScaleDen * b.y1 - h * s, ScaleDen),
                            RoundHalfAway(ScaleDen * b.x2 + w * s, ScaleDen),
                            RoundHalfAway(ScaleDen * b.y2 + h * s, ScaleDen))

\* C24: the region the video blur path masks (centre +- int(size *
\* mask_scale) // 2, clamped to the frame) is the region scale_bb followed by
\* the clipping of anonymize_frame gives, for every box, mask_scale and frame
\* size.
C24_VideoRegionIsScaleThenClip ==
    geo.pc = "done" => geo.vregion = geo.region

\* ------------------------------------------------------------------------
\* Properties of the progress values (specification SpecFrames)
\* ------------------------------------------------------------------------
\* min(floor(counted / total * 100), 99)
CappedPercent(counted, total) == Min((counted * 100) \div total, 99)

\* C25: with a known total > 0, every progress value emitted before the
\* final event is min(floor(counted / total * 100), 99), counted being the
\* number of frames written so far: the values never decrease and stay in
\* 0..99 until the final event, also when more frames are read than the
\* total reported.  In the video thread the final event is the one emitted
\* after the loop; in process_video it is the last one the call emits, so a
\* value is before the final event once another one follows it.
C25_ProgressBeforeFinal ==
    /\ [](\A t \in ThreadIds :
            (threads[t].pc \notin {"none", "done"} /\ threads[t].total_frames > 0
                /\ threads[t].progress >= 0)
               => threads[t].progress
                     = CappedPercent(threads[t].progress_at, threads[t].total_frames))
    /\ [][\A t \in ThreadIds :
            (threads[t].progress >= 0 /\ threads'[t].pc # "none"
                /\ threads'[t].job = threads[t].job)
               => threads'[t].progress >= threads[t].progress]_vars
    /\ [][(pv.pc = "flush" /\ pv.progress >= 0 /\ pv'.progress_at # pv.progress_at)
            => /\ pv.progress = CappedPercent(pv.progress_at, pv.count)
               /\ pv'.progress >= pv.progress]_vars

\* ------------------------------------------------------------------------
\* Properties of the score text (specification SpecEffect)
\* ------------------------------------------------------------------------
FrameOps == {"process_image", "video_frame"}

\* C27: with draw_scores set, for every detection, every mask method and
\* both the image path and the video thread's frame path, the score text of
\* the detection is drawn after the detection's mask, with its origin at
\* the top-left corner (x1, y1) of the detection's region.
C27_ScoreTextAfterMask ==
    (fx.op \in FrameOps /\ fx.draw_scores /\ ~fx.error) =>
        \A i \in 1..Len(fx.dets) :
            \E k \in 1..Len(fx.events) :
                /\ fx.events[k].kind = "text"
                /\ fx.events[k].det = i
                /\ fx.events[k].org = <<fx.events[k].region.x1, fx.events[k].region.y1>>
                /\ \A m \in 1..Len(fx.events) :
                      (fx.events[m].kind = "mask" /\ fx.events[m].det = i) => m < k

\* C28: in a frame with several detections, the pixels Blur or Mosaic read
\* as the input of one detection's mask are never pixels that the score text
\* of another detection has already overwritten.
C28_TextOutsideMaskInputs ==
    (fx.op \in FrameOps /\ fx.opt.replacewith \in {"blur", "mosaic"}) =>
        \A k, m \in 1..Len(fx.events) :
            (/\ k < m
             /\ fx.events[k].kind = "text"
             /\ fx.events[m].kind = "mask"
             /\ fx.events[k].det # fx.events[m].det)
               => fx.events[k].painted \cap fx.events[m].reads = {}

\* ------------------------------------------------------------------------
\* Properties of the blur intensity mapping (specification SpecEffect)
\* ------------------------------------------------------------------------
\* C29: over blur_intensity 1..10 a lower intensity gives a larger kernel
\* and more blur passes: for a < b, kernel(a) > kernel(b) and passes(a) >
\* passes(b); the kernel size is always odd and at least 5.
C29_BlurIntensityMapping ==
    fx.op = "blur_params" =>
        /\ fx.a < fx.b => (fx.kernel_a > fx.kernel_b /\ fx.passes_a > fx.passes_b)
        /\ fx.kernel_a % 2 = 1
        /\ fx.kernel_a >= 5

\* ------------------------------------------------------------------------
\* Retries (specification Spec)
\* ------------------------------------------------------------------------
\* C30: nothing is retried: within one batch run no job is started twice,
\* whatever the outcome of its run, and within one video run the detector and
\* the masking are each called at most once per frame read.
C30_NoAutomaticRetries ==
    /\ \A i, j \in 1..Len(started) : started[i] = started[j] => i = j
    /\ \A t \in ThreadIds :
          /\ threads[t].detected <= threads[t].pos
          /\ threads[t].masked <= threads[t].detected

\* the run of the first job of a batch failed, the scheduler marked the job
\* Failed and went on; the second job's run has detected and masked two frames
C30_Witness ==
    /\ Len(batch_list) = 2
    /\ started = <<0, 1>>
    /\ results[1].outcome = "failed"
    /\ Status(batch_list[1]) = Failed
    /\ \E t \in ThreadIds :
          /\ threads[t].job = 1
          /\ threads[t].pc = "read"
          /\ threads[t].pos = 2
          /\ threads[t].detected = 2
          /\ threads[t].masked = 2

\* ------------------------------------------------------------------------
\* The finished notification (specification Spec)
\* ------------------------------------------------------------------------
\* processing_finished emissions of thread t that the GUI thread has not yet
\* handled; the slot of a handled emission is cleared (Delivered)
FinishedFrom(t) == Cardinality({k \in 1..Len(signals) : signals[k].from = t})

\* C31: every started run emits the finished notification exactly once on
\* every path: a run that has returned has one emission queued for the
\* scheduler (so the batch goes on or ends), and a run that has not returned
\* has none.
C31_FinishedEmittedOnce ==
    \A t \in ThreadIds :
        /\ threads[t].pc = "done" => FinishedFrom(t) = 1
        /\ threads[t].pc # "done" => FinishedFrom(t) = 0

\* ------------------------------------------------------------------------
\* Completeness of process_video (specification SpecFrames)
\* ------------------------------------------------------------------------
\* C32: when process_video returns successfully, the number of frames
\* appended to the writer equals the number of frames the reader yielded,
\* for every batch_size and every frame count reported by the reader's
\* metadata; no frame is left in an unflushed batch.
C32_AllFramesWritten ==
    pv.pc = "returned" =>
        /\ Len(pv.written) = pv.nframes
        /\ pv.frames_batch = <<>>

\* ------------------------------------------------------------------------
\* Progress of an image batch (specification SpecImages)
\* ------------------------------------------------------------------------
\* C33: an image batch that runs to the end without cancellation emits 100
\* as its last progress value before the "Completed" notification, whichever
\* images are unreadable or raise while being processed, the last one
\* included; the progress values are non-decreasing.
C33_ImageBatchEndsAt100 ==
    ib.pc # "idle" =>
        /\ \A j, k \in 1..Len(ib.progress_log) :
               j <= k => ib.progress_log[j] <= ib.progress_log[k]
        /\ ib.finished = "completed" =>
               /\ ib.progress_log # <<>>
               /\ ib.progress_log[Len(ib.progress_log)] = 100

\* ------------------------------------------------------------------------
\* Locality of a mask (specification SpecEffect)
\* ------------------------------------------------------------------------
\* the rectangle of a region with both corners included, within the frame
RegionRectangle(r, width, height) ==
    {p \in Pixels(width, height) :
        r.x1 <= p[1] /\ p[1] <= r.x2 /\ r.y1 <= p[2] /\ p[2] <= r.y2}

\* C34: for every valid region and every mask method, with draw_scores
\* false, masking one detection changes no pixel outside the region's
\* rectangle (columns x1..x2, rows y1..y2), and neither reads nor writes
\* outside the frame.
C34_MaskStaysInRegion ==
    (fx.op = "mask_one" /\ ValidRegion(fx.region, fx.width, fx.height)) =>
        /\ fx.painted \subseteq RegionRectangle(fx.region, fx.width, fx.height)
        /\ fx.reads \subseteq Pixels(fx.width, fx.height)
        /\ ~fx.index_outside

\* a solid fill of a region strictly inside the frame: every pixel of the
\* rectangle was written and the frame has pixels on all sides of it
C34_WitnessDrawDet ==
    /\ fx.op = "mask_one" /\ fx.path = "draw_det" /\ fx.opt.replacewith = "solid"
    /\ fx.width = 4 /\ fx.height = 4
    /\ fx.region = Box(1, 1, 2, 2)
    /\ fx.painted = RegionRectangle(fx.region, 4, 4)

\* a mosaic whose last cells are cut at the region's edge
C34_WitnessMosaic ==
    /\ fx.op = "mask_one" /\ fx.path = "draw_det" /\ fx.opt.replacewith = "mosaic"
    /\ fx.opt.mosaicsize = 2
    /\ fx.width = 4 /\ fx.height = 4
    /\ fx.region = Box(0, 0, 3, 3)
    /\ fx.painted # {} /\ ~fx.error

\* the video blur path on a region that ends at the frame's edge
C34_WitnessVideo ==
    /\ fx.op = "mask_one" /\ fx.path = "video_blur" /\ ~fx.opt.ellipse
    /\ fx.width = 4 /\ fx.height = 4
    /\ fx.region = Box(2, 1, 4, 4)
    /\ fx.painted = RegionPixels(fx.region, 4, 4) /\ ~fx.error

C34_Witness == C34_WitnessDrawDet \/ C34_WitnessMosaic \/ C34_WitnessVideo

\* ------------------------------------------------------------------------
\* Frame extraction (specification SpecExtract)
\* ------------------------------------------------------------------------
\* the frame indices in 1..n that are multiples of k
MultiplesUpTo(n, k) == {c \in 1..n : c % k = 0}

\* C35: for every reported fps >= 0 and every time interval the UI allows,
\* video2img terminates without raising and returns the number of saved
\* frames, the number of frame indices in 1..N that are multiples of
\* int(fps * interval); an extraction error in one video does not stop the
\* remaining videos of the batch.
C35_ExtractionNeverRaises ==
    fe.pc # "idle" =>
        /\ fe.raised_at = 0
        /\ \A k \in 1..Len(fe.returns) :
              LET r == fe.returns[k]
                  intvl == (r.fps * fe.time_interval) \div IntervalDen
              IN (~r.cut /\ r.count > 0) =>
                    r.num_img = Cardinality(MultiplesUpTo(r.count, intvl))
        /\ (fe.pc = "done" /\ fe.finished # "stopped") => fe.i = fe.total_files
====
